---- MODULE Spec2Model ----
(***************************************************************************)
(* A model of TrackDrop's curation core: the per-user DataStore            *)
(* (persistence/data_store.py), the playlist scheduler                     *)
(* (playlist_monitor.py) and the cleanup pass with its protection          *)
(* aggregation and decision policy (apis/navidrome_api.py).                *)
(*                                                                         *)
(* Strings the code compares case-insensitively or rewrites character by   *)
(* character (artist, title, user names) are sequences of one-character    *)
(* strings; other strings (sources, ids, paths) are opaque.                *)
(***************************************************************************)
EXTENDS Integers, Sequences, FiniteSets, TLC

VARIABLES
    file,        \* persisted user files, by file name
    lockOwner,   \* DataStore._user_locks: user name -> holding thread, 0 if free
    pc,          \* each store thread's position in its current operation
    call,        \* each store thread's current operation and arguments
    snap,        \* each store thread's in-memory copy of the user data
    serial,      \* history: the completed mutations applied one after another
    crashed,     \* the process was killed (in-memory state lost)
    preCrash,    \* history: the file contents before the mutation a crash cut
    postCrash,   \* history: the contents that mutation was about to write
    now,         \* wall-clock time, in hours
    running,     \* playlist_monitor._scheduler_running
    schedThread, \* playlist_monitor._scheduler_thread: a loop thread, 0 for None
    loop,        \* the scheduler loop threads: position and local variables
    ctl,         \* the threads calling start_scheduler and stop_scheduler
    syncedOnce,  \* history: the targets of which a sync run has finished
    stopCalled,  \* history: stop_scheduler has been called
    history,     \* the download history file of the cleanup user, by source
    library,     \* Navidrome: each song's annotation rows and playlists
    clean,       \* process_api_cleanup: position and local variables
    deleted,     \* history: the songs the cleanup pass deleted, as they were
    decide,      \* one call of _should_delete_song: arguments and result
    marker,      \* the data directory holds .migration_complete_v1
    inits,       \* history: how often a DataStore was constructed on the directory
    resolve,     \* one call of _search_song_in_navidrome: arguments, locals, result
    protect,     \* one call of _check_song_protection: the song, the path, the result
    ev,          \* one call of _check_song_protection, step by step
    reg,         \* one call of playlist_monitor.add_monitored_playlist
    batch,       \* one download batch: the tracks, the loop index, the counts
    hist,        \* add_to and remove_from_download_history in two threads
    norm,        \* one call of _normalize_for_match: the text, the position, the output
    scan,        \* one wait for a library scan: its kind, position, elapsed seconds, last answer
    http,        \* one call of make_request_with_retries: arguments, attempt, outcomes so far, result
    restartCalled\* history: start_scheduler has been called after a stop_scheduler

storeVars == <<file, lockOwner, pc, call, snap, serial, crashed, preCrash, postCrash>>

storeThreadVars == <<lockOwner, pc, call, snap, serial, crashed, preCrash, postCrash>>

schedVars == <<now, running, schedThread, loop, ctl, syncedOnce, stopCalled>>

cleanVars == <<history, library, clean, deleted, decide>>

migVars == <<marker, inits>>

resolveVars == <<resolve>>

protectVars == <<protect>>

evalVars == <<ev>>

regVars == <<reg>>

batchVars == <<batch>>

histVars == <<hist>>

normVars == <<norm>>

scanVars == <<scan>>

httpVars == <<http>>

restartVars == <<restartCalled>>

vars == <<file, lockOwner, pc, call, snap, serial, crashed, preCrash, postCrash,
          now, running, schedThread, loop, ctl, syncedOnce, stopCalled,
          history, library, clean, deleted, decide,
          marker, inits, resolve, protect, ev, reg, batch, hist, restartCalled, norm, scan, http>>

----------------------------------------------------------------------------
(* Values *)

None == "None"

\* Python's str.lower(), on the letters the model's strings are made of.
LowerChar(c) ==
    CASE c = "A" -> "a"
      [] c = "B" -> "b"
      [] c = "L" -> "l"
      [] c = "M" -> "m"
      [] c = "W" -> "w"
      [] c = "X" -> "x"
      [] c = "Y" -> "y"
      [] OTHER -> c

Lower(s) == [i \in DOMAIN s |-> LowerChar(s[i])]

\* dict.get(key, default)
Get(d, k, default) == IF k \in DOMAIN d THEN d[k] ELSE default

\* dict.update(other): other's keys win, the rest stay
DictUpdate(d, other) ==
    [k \in DOMAIN d \cup DOMAIN other |-> IF k \in DOMAIN other THEN other[k] ELSE d[k]]

EmptyDict == [k \in {} |-> None]

\* the entries of a list that satisfy Keep, in order (a list comprehension)
RECURSIVE Filter(_, _)
Filter(seq, keepIdx) ==
    IF seq = <<>> THEN <<>>
    ELSE LET n == Len(seq)
             front == Filter(SubSeq(seq, 1, n - 1), keepIdx)
         IN IF n \in keepIdx THEN Append(front, seq[n]) ELSE front

----------------------------------------------------------------------------
(* DataStore: files, defaults, load *)

UserA == <<"a">>
UserB == <<"b">>
GlobalUser == <<"_", "_", "g", "l", "o", "b", "a", "l", "_", "_">>

\* two user names that differ in a character _get_user_file_path replaces
UserSlash == <<"a", "/", "b">>
UserUnder == <<"a", "_", "b">>

\* _get_user_file_path: '/' and '\' become '_'; the file name is
\* user_<safe_user>.json, represented by <safe_user>.
SafeUser(username) ==
    [i \in DOMAIN username |-> IF username[i] \in {"/", "\\"} THEN "_" ELSE username[i]]

UserFile(username) == SafeUser(username)

DefaultSettings == [cron_enabled |-> TRUE, first_time_setup_done |-> FALSE]

\* _create_default_user_data (the _version and _created stamps, which no
\* operation reads, are left out, as is _last_modified in _save_user_data)
DefaultUserData ==
    [settings |-> DefaultSettings,
     download_history |-> EmptyDict,
     pending_cleanup |-> EmptyDict,
     monitored_playlists |-> <<>>]

\* A file is absent, holds a complete JSON document, or holds the bytes of an
\* interrupted write (empty or cut short), which json.load rejects.
NoFile == [kind |-> "absent"]
Partial == [kind |-> "partial"]
Json(data) == [kind |-> "json", data |-> data]

\* _load_user_data
LoadUserData(f) ==
    IF f.kind = "json" THEN f.data ELSE DefaultUserData

\* _save_user_data writes in two steps: open(file_path, 'w') truncates the
\* file, then json.dump fills it.
OpenForWrite == Partial

\* what an operation did: the data it leaves in memory, whether it called
\* _save_user_data, its return value, and whether it raised
Ok(data, save, ret) == [data |-> data, save |-> save, ret |-> ret, raised |-> FALSE]

\* the operation raised before it saved (a KeyError of data[...])
Raised(data) == [data |-> data, save |-> FALSE, ret |-> None, raised |-> TRUE]

SetKey(d, k, v) == DictUpdate(d, k :> v)

Min(S) == CHOOSE x \in S : \A y \in S : x <= y

\* existing.get('artist', '').lower() == artist_lower and
\* existing.get('title', '').lower() == title_lower
SameTrack(t, artist_lower, title_lower) ==
    /\ Lower(Get(t, "artist", <<>>)) = artist_lower
    /\ Lower(Get(t, "title", <<>>)) = title_lower

----------------------------------------------------------------------------
(* DataStore: pending cleanup API *)

AddPendingCleanupNoUpsert(data, source, track_info) ==
    LET pending == Get(data, "pending_cleanup", EmptyDict)
        p1 == IF source \in DOMAIN pending THEN pending ELSE pending @@ (source :> <<>>)
    IN Ok(SetKey(data, "pending_cleanup",
                 [p1 EXCEPT ![source] = Append(@, track_info)]), TRUE, None)

AddPendingCleanupKeepFirst(data, source, track_info) ==
    LET pending == Get(data, "pending_cleanup", EmptyDict)
        p1 == IF source \in DOMAIN pending THEN pending ELSE pending @@ (source :> <<>>)
        artist_lower == Lower(Get(track_info, "artist", <<>>))
        title_lower == Lower(Get(track_info, "title", <<>>))
        hits == {i \in DOMAIN p1[source] : SameTrack(p1[source][i], artist_lower, title_lower)}
    IN IF hits # {}
       THEN Ok(SetKey(data, "pending_cleanup", p1), TRUE, None)
       ELSE Ok(SetKey(data, "pending_cleanup",
                      [p1 EXCEPT ![source] = Append(@, track_info)]),
               TRUE, None)

\* add_pending_cleanup
AddPendingCleanup(data, source, track_info) ==
    LET pending == Get(data, "pending_cleanup", EmptyDict)
        p1 == IF source \in DOMAIN pending THEN pending ELSE pending @@ (source :> <<>>)
        artist_lower == Lower(Get(track_info, "artist", <<>>))
        title_lower == Lower(Get(track_info, "title", <<>>))
        hits == {i \in DOMAIN p1[source] : SameTrack(p1[source][i], artist_lower, title_lower)}
    IN IF hits # {}
       THEN Ok(SetKey(data, "pending_cleanup",
                      [p1 EXCEPT ![source][Min(hits)] = DictUpdate(@, track_info)]),
               TRUE, None)
       ELSE Ok(SetKey(data, "pending_cleanup",
                      [p1 EXCEPT ![source] = Append(@, track_info)]),
               TRUE, None)

\* remove_pending_cleanup
RemovePendingCleanup(data, source, artist, title) ==
    LET pending == Get(data, "pending_cleanup", EmptyDict)
    IN IF source \notin DOMAIN pending
       THEN Ok(data, FALSE, FALSE)
       ELSE LET old == pending[source]
                keep == {i \in DOMAIN old : ~SameTrack(old[i], Lower(artist), Lower(title))}
                p1 == [pending EXCEPT ![source] = Filter(old, keep)]
            IN IF Len(p1[source]) < Len(old)
               THEN Ok(SetKey(data, "pending_cleanup", p1), TRUE, TRUE)
               ELSE Ok(data, FALSE, FALSE)

\* remove_pending_by_navidrome_id
RemovePendingByNavidromeId(data, navidrome_id) ==
    LET pending == Get(data, "pending_cleanup", EmptyDict)
        p1 == [s \in DOMAIN pending |->
                 Filter(pending[s],
                        {i \in DOMAIN pending[s] :
                           Get(pending[s][i], "navidrome_id", None) # navidrome_id})]
        removed == \E s \in DOMAIN pending : Len(p1[s]) < Len(pending[s])
    IN IF removed
       THEN Ok(SetKey(data, "pending_cleanup", p1), TRUE, TRUE)
       ELSE Ok(data, FALSE, FALSE)

MarkAsManuallyDownloadedExactCase(data, artist, title) ==
    LET pending == Get(data, "pending_cleanup", EmptyDict)
        p1 == [s \in DOMAIN pending |->
                 Filter(pending[s],
                        {i \in DOMAIN pending[s] : ~SameTrack(pending[s][i], artist, title)})]
        removed == \E s \in DOMAIN pending : Len(p1[s]) < Len(pending[s])
    IN IF removed
       THEN Ok(SetKey(data, "pending_cleanup", p1), TRUE, TRUE)
       ELSE Ok(data, FALSE, FALSE)

\* mark_as_manually_downloaded
MarkAsManuallyDownloaded(data, artist, title) ==
    LET pending == Get(data, "pending_cleanup", EmptyDict)
        p1 == [s \in DOMAIN pending |->
                 Filter(pending[s],
                        {i \in DOMAIN pending[s] :
                           ~SameTrack(pending[s][i], Lower(artist), Lower(title))})]
        removed == \E s \in DOMAIN pending : Len(p1[s]) < Len(pending[s])
    IN IF removed
       THEN Ok(SetKey(data, "pending_cleanup", p1), TRUE, TRUE)
       ELSE Ok(data, FALSE, FALSE)

\* clear_pending_cleanup
ClearPendingCleanup(data) ==
    Ok(SetKey(data, "pending_cleanup", EmptyDict), TRUE, None)

\* is_pending_cleanup
IsPendingCleanup(data, artist, title) ==
    LET pending == Get(data, "pending_cleanup", EmptyDict)
    IN \E s \in DOMAIN pending : \E i \in DOMAIN pending[s] :
          SameTrack(pending[s][i], Lower(artist), Lower(title))

RECURSIVE SumLen(_, _)
SumLen(d, keys) ==
    IF keys = {} THEN 0
    ELSE LET k == CHOOSE k \in keys : TRUE
         IN Len(d[k]) + SumLen(d, keys \ {k})

\* get_pending_count
GetPendingCount(data) ==
    LET pending == Get(data, "pending_cleanup", EmptyDict)
    IN SumLen(pending, DOMAIN pending)

----------------------------------------------------------------------------
(* DataStore: settings and monitored playlists *)

\* update_user_settings
UpdateUserSettings(data, settings_dict) ==
    IF "settings" \notin DOMAIN data THEN Raised(data)
    ELSE Ok([data EXCEPT !.settings = DictUpdate(@, settings_dict)], TRUE, TRUE)

\* get_user_settings; the defaults the model carries stand for
\* DEFAULT_USER_SETTINGS
GetUserSettings(data) ==
    Ok(data, FALSE, DictUpdate(DefaultSettings, Get(data, "settings", EmptyDict)))

\* dict.pop(key, None) for each key of a list
Pop(d, keys) == [k \in DOMAIN d \ keys |-> d[k]]

\* clear_download_history; sources is None or a list, here a set, of names
ClearDownloadHistory(data, sources) ==
    IF sources # {}
    THEN IF "download_history" \notin DOMAIN data THEN Raised(data)
         ELSE Ok([data EXCEPT !.download_history = Pop(@, sources)], TRUE, None)
    ELSE Ok(SetKey(data, "download_history", EmptyDict), TRUE, None)

\* A timestamp field: None, an ISO string of a time, or a string that
\* datetime.fromisoformat rejects.
NoTime == <<"none">>
Iso(t) == <<"iso", t>>
BadTime == <<"bad">>

\* An optional count: None is <<>>, n is <<n>>.
NoCount == <<>>

\* mark_playlist_synced that would append an entry for an id it does not find
MarkPlaylistSyncedUpsert(data, playlist_id, track_count, at) ==
    LET playlists == Get(data, "monitored_playlists", <<>>)
        hits == {i \in DOMAIN playlists : playlists[i].id = playlist_id}
        p1 == IF hits = {}
              THEN Append(playlists, [id |-> playlist_id, last_synced |-> Iso(at)])
              ELSE [playlists EXCEPT ![Min(hits)] = [@ EXCEPT !.last_synced = Iso(at)]]
    IN Ok(SetKey(data, "monitored_playlists", p1), TRUE, None)

\* mark_playlist_synced; at is datetime.now()
MarkPlaylistSynced(data, playlist_id, track_count, at) ==
    LET playlists == Get(data, "monitored_playlists", <<>>)
        hits == {i \in DOMAIN playlists : playlists[i].id = playlist_id}
        p1 == IF hits = {} THEN playlists
              ELSE [playlists EXCEPT ![Min(hits)] =
                      IF track_count # NoCount
                      THEN [@ EXCEPT !.last_synced = Iso(at),
                                     !.last_track_count = track_count[1]]
                      ELSE [@ EXCEPT !.last_synced = Iso(at)]]
    IN Ok(SetKey(data, "monitored_playlists", p1), TRUE, None)

\* update_monitored_playlist that would copy every key of the update
UpdateMonitoredPlaylistAnyKey(data, playlist_id, updates) ==
    LET playlists == Get(data, "monitored_playlists", <<>>)
        hits == {i \in DOMAIN playlists : playlists[i].id = playlist_id}
    IN IF hits = {}
       THEN Ok(data, FALSE, None)
       ELSE LET p1 == [playlists EXCEPT ![Min(hits)] = DictUpdate(@, updates)]
            IN Ok(SetKey(data, "monitored_playlists", p1), TRUE, p1[Min(hits)])

\* update_monitored_playlist
UpdateMonitoredPlaylist(data, playlist_id, updates) ==
    LET playlists == Get(data, "monitored_playlists", <<>>)
        hits == {i \in DOMAIN playlists : playlists[i].id = playlist_id}
        applied == [k \in DOMAIN updates \cap {"poll_interval_hours", "enabled", "name"}
                      |-> updates[k]]
    IN IF hits = {}
       THEN Ok(data, FALSE, None)
       ELSE LET p1 == [playlists EXCEPT ![Min(hits)] = DictUpdate(@, applied)]
            IN Ok(SetKey(data, "monitored_playlists", p1), TRUE, p1[Min(hits)])

\* remove_monitored_playlist
RemoveMonitoredPlaylist(data, playlist_id) ==
    LET playlists == Get(data, "monitored_playlists", <<>>)
        kept == Filter(playlists, {i \in DOMAIN playlists : playlists[i].id # playlist_id})
    IN IF Len(kept) < Len(playlists)
       THEN Ok(SetKey(data, "monitored_playlists", kept), TRUE, TRUE)
       ELSE Ok(data, FALSE, FALSE)

\* add_monitored_playlist; new_id is str(uuid.uuid4())
AddMonitoredPlaylist(data, username, url, name, poll_interval_hours, new_id) ==
    LET playlists == Get(data, "monitored_playlists", <<>>)
        dups == {i \in DOMAIN playlists : playlists[i].url = url}
        entry == [id |-> new_id, url |-> url, name |-> name, username |-> username,
                  poll_interval_hours |-> poll_interval_hours, enabled |-> TRUE,
                  last_synced |-> NoTime, last_track_count |-> 0]
    IN IF dups # {}
       THEN Ok(data, FALSE, playlists[Min(dups)])
       ELSE Ok(SetKey(data, "monitored_playlists", Append(playlists, entry)), TRUE, entry)

----------------------------------------------------------------------------
(* DataStore: threads calling operations *)

MaxThreads == 2
Threads == 1..MaxThreads

Artist1 == <<"A", "b">>
Artist1Upper == <<"A", "B">>
TitleX == <<"x">>
TitleXUpper == <<"X">>
TitleY == <<"y">>

Track1 == [artist |-> Artist1, title |-> TitleX, navidrome_id |-> "n1", file_path |-> "p1"]
Track1Again == [artist |-> Artist1Upper, title |-> TitleXUpper, navidrome_id |-> "n2", file_path |-> "p2"]
Track2 == [artist |-> Artist1, title |-> TitleY, navidrome_id |-> "n1", file_path |-> "p3"]

NoCall == [op |-> "none"]
NoData == [kind |-> "nodata"]

\* the operation of a call, applied to loaded user data
Apply(c, data) ==
    CASE c.op = "add_pending_cleanup" -> AddPendingCleanup(data, c.source, c.track_info)
      [] c.op = "remove_pending_cleanup" -> RemovePendingCleanup(data, c.source, c.artist, c.title)
      [] c.op = "remove_pending_by_navidrome_id" -> RemovePendingByNavidromeId(data, c.navidrome_id)
      [] c.op = "mark_as_manually_downloaded" -> MarkAsManuallyDownloaded(data, c.artist, c.title)
      [] c.op = "clear_pending_cleanup" -> ClearPendingCleanup(data)
      [] c.op = "update_user_settings" -> UpdateUserSettings(data, c.settings_dict)
      [] c.op = "get_user_settings" -> GetUserSettings(data)
      [] c.op = "clear_download_history" -> ClearDownloadHistory(data, c.sources)
      [] c.op = "get_pending_count" -> Ok(data, FALSE, GetPendingCount(data))
      [] c.op = "mark_playlist_synced" -> MarkPlaylistSynced(data, c.playlist_id, c.track_count, c.at)
      [] c.op = "add_monitored_playlist" ->
             AddMonitoredPlaylist(data, c.user, c.url, c.name, c.poll_interval_hours, c.new_id)
      [] c.op = "update_monitored_playlist" ->
             UpdateMonitoredPlaylist(data, c.playlist_id, c.updates)
      [] c.op = "remove_monitored_playlist" -> RemoveMonitoredPlaylist(data, c.playlist_id)

\* Calls of several threads on one user's data, and one on another user's.
ConcurrentCalls ==
    {[op |-> "add_pending_cleanup", user |-> UserA, source |-> "ListenBrainz", track_info |-> t] :
        t \in {Track1, Track1Again}}
    \cup {[op |-> "remove_pending_cleanup", user |-> UserA, source |-> "ListenBrainz",
           artist |-> Artist1Upper, title |-> TitleX]}
    \cup {[op |-> "update_user_settings", user |-> u,
           settings_dict |-> [first_time_setup_done |-> TRUE]] : u \in {UserA, UserB}}
    \cup {[op |-> "add_monitored_playlist", user |-> UserA, url |-> "url1", name |-> "Mix",
           poll_interval_hours |-> 1, new_id |-> "pl1"]}
    \cup {[op |-> "mark_playlist_synced", user |-> UserA, playlist_id |-> "pl1",
           track_count |-> <<3>>, at |-> 1]}

StoreUsers == {UserA, UserB, GlobalUser, UserSlash, UserUnder}
StoreFiles == {UserFile(u) : u \in StoreUsers}

\* with user_lock: a threading.RLock is free, or already held by the caller
LockAvailableAlways(username, t) == TRUE

LockAvailable(username, t) == lockOwner[username] \in {0, t}

\* uuid4 never repeats an id that is stored or being stored
IdIsFresh(c) ==
    c.op = "add_monitored_playlist" =>
        /\ \A f \in StoreFiles : \A i \in DOMAIN LoadUserData(file[f]).monitored_playlists :
              LoadUserData(file[f]).monitored_playlists[i].id # c.new_id
        /\ \A t \in Threads : call[t].op = "add_monitored_playlist" => call[t].new_id # c.new_id

\* user_lock = self._get_user_lock(username); with user_lock:
Acquire(t, c) ==
    /\ pc[t] = "idle"
    /\ IdIsFresh(c)
    /\ LockAvailable(c.user, t)
    /\ lockOwner' = [lockOwner EXCEPT ![c.user] = t]
    /\ call' = [call EXCEPT ![t] = c]
    /\ pc' = [pc EXCEPT ![t] = "locked"]
    /\ UNCHANGED <<file, snap, serial, crashed, preCrash, postCrash>>
    /\ UNCHANGED <<schedVars, cleanVars, migVars, resolveVars, protectVars, evalVars, regVars, batchVars, histVars, restartVars, normVars, scanVars, httpVars>>

\* data = self._load_user_data(username)
Load(t) ==
    /\ pc[t] = "locked"
    /\ snap' = [snap EXCEPT ![t] = LoadUserData(file[UserFile(call[t].user)])]
    /\ pc' = [pc EXCEPT ![t] = "loaded"]
    /\ UNCHANGED <<file, lockOwner, call, serial, crashed, preCrash, postCrash>>
    /\ UNCHANGED <<schedVars, cleanVars, migVars, resolveVars, protectVars, evalVars, regVars, batchVars, histVars, restartVars, normVars, scanVars, httpVars>>

\* the operation's changes, then _save_user_data up to open(file_path, 'w')
SaveOpen(t) ==
    /\ pc[t] = "loaded"
    /\ LET r == Apply(call[t], snap[t])
           f == UserFile(call[t].user)
       IN /\ r.save
          /\ snap' = [snap EXCEPT ![t] = r.data]
          /\ preCrash' = [preCrash EXCEPT ![f] = file[f]]
          /\ postCrash' = [postCrash EXCEPT ![f] = Json(r.data)]
          /\ file' = [file EXCEPT ![f] = OpenForWrite]
    /\ pc' = [pc EXCEPT ![t] = "writing"]
    /\ UNCHANGED <<lockOwner, call, serial, crashed>>
    /\ UNCHANGED <<schedVars, cleanVars, migVars, resolveVars, protectVars, evalVars, regVars, batchVars, histVars, restartVars, normVars, scanVars, httpVars>>

\* the operation returns without saving; the with block releases the lock
ReturnUnsaved(t) ==
    /\ pc[t] = "loaded"
    /\ ~Apply(call[t], snap[t]).save
    /\ ~Apply(call[t], snap[t]).raised
    /\ pc' = [pc EXCEPT ![t] = "idle"]
    /\ call' = [call EXCEPT ![t] = NoCall]
    /\ snap' = [snap EXCEPT ![t] = NoData]
    /\ lockOwner' = [lockOwner EXCEPT ![call[t].user] = 0]
    /\ UNCHANGED <<file, serial, crashed, preCrash, postCrash>>
    /\ UNCHANGED <<schedVars, cleanVars, migVars, resolveVars, protectVars, evalVars, regVars, batchVars, histVars, restartVars, normVars, scanVars, httpVars>>

\* the operation raises; the with block releases the lock and the exception
\* reaches the caller
Propagate(t) ==
    /\ pc[t] = "loaded"
    /\ Apply(call[t], snap[t]).raised
    /\ pc' = [pc EXCEPT ![t] = "raised"]
    /\ snap' = [snap EXCEPT ![t] = NoData]
    /\ lockOwner' = [lockOwner EXCEPT ![call[t].user] = 0]
    /\ UNCHANGED <<file, call, serial, crashed, preCrash, postCrash>>
    /\ UNCHANGED <<schedVars, cleanVars, migVars, resolveVars, protectVars, evalVars, regVars, batchVars, histVars, restartVars, normVars, scanVars, httpVars>>

\* json.dump(data, f) completes and the file is closed; the with block
\* releases the lock
SaveDump(t) ==
    /\ pc[t] = "writing"
    /\ LET f == UserFile(call[t].user)
       IN /\ file' = [file EXCEPT ![f] = Json(snap[t])]
          /\ serial' = [serial EXCEPT ![f] = Json(Apply(call[t], LoadUserData(serial[f])).data)]
          /\ preCrash' = [preCrash EXCEPT ![f] = Json(snap[t])]
          /\ postCrash' = [postCrash EXCEPT ![f] = Json(snap[t])]
    /\ pc' = [pc EXCEPT ![t] = "idle"]
    /\ call' = [call EXCEPT ![t] = NoCall]
    /\ snap' = [snap EXCEPT ![t] = NoData]
    /\ lockOwner' = [lockOwner EXCEPT ![call[t].user] = 0]
    /\ UNCHANGED crashed
    /\ UNCHANGED <<schedVars, cleanVars, migVars, resolveVars, protectVars, evalVars, regVars, batchVars, histVars, restartVars, normVars, scanVars, httpVars>>

\* the process is killed: threads, locks and in-memory data are gone
Crash ==
    /\ ~crashed
    /\ crashed' = TRUE
    /\ pc' = [t \in Threads |-> "dead"]
    /\ call' = [t \in Threads |-> NoCall]
    /\ snap' = [t \in Threads |-> NoData]
    /\ lockOwner' = [u \in StoreUsers |-> 0]
    /\ UNCHANGED <<file, serial, preCrash, postCrash>>
    /\ UNCHANGED <<schedVars, cleanVars, migVars, resolveVars, protectVars, evalVars, regVars, batchVars, histVars, restartVars, normVars, scanVars, httpVars>>

\* the process is started again on the same data directory
Restart ==
    /\ crashed
    /\ crashed' = FALSE
    /\ pc' = [t \in Threads |-> "idle"]
    /\ preCrash' = file
    /\ postCrash' = file
    /\ UNCHANGED <<file, serial, call, snap, lockOwner>>
    /\ UNCHANGED <<schedVars, cleanVars, migVars, resolveVars, protectVars, evalVars, regVars, batchVars, histVars, restartVars, normVars, scanVars, httpVars>>

StoreThreadsInit ==
    /\ lockOwner = [u \in StoreUsers |-> 0]
    /\ pc = [t \in Threads |-> "idle"]
    /\ call = [t \in Threads |-> NoCall]
    /\ snap = [t \in Threads |-> NoData]
    /\ crashed = FALSE

\* DataStore() on an empty data directory
StoreInit ==
    /\ file = [f \in StoreFiles |-> NoFile]
    /\ serial = [f \in StoreFiles |-> NoFile]
    /\ preCrash = [f \in StoreFiles |-> NoFile]
    /\ postCrash = [f \in StoreFiles |-> NoFile]
    /\ StoreThreadsInit

StoreStep(threads, calls) ==
    \E t \in threads :
        \/ \E c \in calls : Acquire(t, c)
        \/ Load(t)
        \/ SaveOpen(t)
        \/ ReturnUnsaved(t)
        \/ SaveDump(t)

\* The pending-cleanup operations called one after another: two sources of
\* user a, one of user b.
PendingSources == {"ListenBrainz", "Last.fm"}

PendingCalls ==
    {[op |-> "add_pending_cleanup", user |-> UserA, source |-> s, track_info |-> t] :
        s \in PendingSources, t \in {Track1, Track1Again, Track2}}
    \cup {[op |-> "add_pending_cleanup", user |-> UserB, source |-> "ListenBrainz",
           track_info |-> t] : t \in {Track1, Track1Again}}
    \cup {[op |-> "remove_pending_cleanup", user |-> UserA, source |-> s,
           artist |-> k[1], title |-> k[2]] :
        s \in PendingSources, k \in {<<Artist1Upper, TitleX>>, <<Artist1, TitleY>>}}
    \cup {[op |-> "remove_pending_by_navidrome_id", user |-> UserA, navidrome_id |-> n] :
        n \in {"n1", "n2"}}
    \cup {[op |-> "mark_as_manually_downloaded", user |-> u, artist |-> Artist1,
           title |-> TitleXUpper] : u \in {UserA, UserB}}
    \cup {[op |-> "clear_pending_cleanup", user |-> UserA]}

----------------------------------------------------------------------------
(* Claims about the DataStore *)

InCriticalSection(t, f) ==
    pc[t] \in {"locked", "loaded", "writing"} /\ UserFile(call[t].user) = f

\* C1: operations on one owner user's data are mutually exclusive, and the
\* persisted state is always the result of applying the operations that have
\* saved so far one after another, in the order they saved (no update is
\* lost); while a save is being written this is the state it will complete.
C1_SerialOutcome ==
    \A f \in StoreFiles :
        /\ Cardinality({t \in Threads : InCriticalSection(t, f)}) <= 1
        /\ (\A t \in Threads : ~(pc[t] = "writing" /\ UserFile(call[t].user) = f))
              => file[f] = serial[f]
        /\ \A t \in Threads :
              (pc[t] = "writing" /\ UserFile(call[t].user) = f)
                 => Json(snap[t]) = Json(Apply(call[t], LoadUserData(serial[f])).data)

\* C1 witness: one thread is inside its load-modify-save for user a while the
\* file already holds the effects of a settings update, a pending add and a
\* playlist sync mark made by earlier operations.
C1_Witness ==
    /\ \E t \in Threads : pc[t] = "loaded" /\ call[t].user = UserA
                          /\ call[t].op = "remove_pending_cleanup"
    /\ file[UserFile(UserA)].kind = "json"
    /\ LET d == file[UserFile(UserA)].data
       IN /\ d.settings.first_time_setup_done
          /\ "ListenBrainz" \in DOMAIN d.pending_cleanup
          /\ Len(d.pending_cleanup["ListenBrainz"]) = 1
          /\ Len(d.monitored_playlists) = 1
          /\ d.monitored_playlists[1].last_synced = Iso(1)

\* Calls of several threads under two user names that share a file.
SharedFileCalls ==
    {[op |-> "add_pending_cleanup", user |-> u, source |-> "ListenBrainz", track_info |-> t] :
        u \in {UserSlash, UserUnder}, t \in {Track1, Track2}}
    \cup {[op |-> "update_user_settings", user |-> u,
           settings_dict |-> [first_time_setup_done |-> TRUE]] : u \in {UserSlash, UserUnder}}
    \cup {[op |-> "get_pending_count", user |-> UserUnder]}

\* C27: at most one thread at a time is between acquiring the lock and
\* returning from an operation on a user file, whatever the user names the
\* operations were called with, and no saved operation's effect is lost.
C27_SharedFileSerialized ==
    \A t1, t2 \in Threads :
        /\ (/\ t1 # t2
            /\ pc[t1] \in {"locked", "loaded", "writing"}
            /\ pc[t2] \in {"locked", "loaded", "writing"})
           => UserFile(call[t1].user) # UserFile(call[t2].user)
        /\ (pc[t1] = "idle" /\ pc[t2] = "idle") => file = serial

\* C2: after a crash every user file holds either the complete state from
\* before the mutation that was in progress or the complete state after it.
C2_CrashConsistent ==
    crashed => \A f \in StoreFiles : file[f] \in {preCrash[f], postCrash[f]}

PendingKeys(tracks) ==
    {<<Lower(Get(tracks[i], "artist", <<>>)), Lower(Get(tracks[i], "title", <<>>))>> :
        i \in DOMAIN tracks}

\* C3: in every persisted user file, each source's pending list holds at most
\* one record per (lower-cased artist, lower-cased title).
C3_OneRecordPerKey ==
    \A f \in StoreFiles :
        file[f].kind = "json" =>
            \A s \in DOMAIN file[f].data.pending_cleanup :
                LET tracks == file[f].data.pending_cleanup[s]
                IN Cardinality(PendingKeys(tracks)) = Len(tracks)

\* C3 witness: an add for a key that is already pending (in another letter
\* case) has been applied to a list of two records and left two records.
C3_Witness ==
    \E t \in Threads :
        /\ pc[t] = "writing"
        /\ call[t].op = "add_pending_cleanup"
        /\ LET f == UserFile(call[t].user)
               s == call[t].source
           IN /\ preCrash[f].kind = "json"
              /\ s \in DOMAIN preCrash[f].data.pending_cleanup
              /\ Len(preCrash[f].data.pending_cleanup[s]) = 2
              /\ Len(snap[t].pending_cleanup[s]) = 2
              /\ preCrash[f].data.pending_cleanup[s] # snap[t].pending_cleanup[s]

\* the records of a user's data under a source that have a track's key
RecordsOfKey(data, source, track_info) ==
    LET pending == Get(data, "pending_cleanup", EmptyDict)
    IN IF source \notin DOMAIN pending THEN {}
       ELSE {i \in DOMAIN pending[source] :
               SameTrack(pending[source][i], Lower(track_info.artist), Lower(track_info.title))}

\* C13: an add for a key the owner's source already holds leaves exactly one
\* record for the key, carrying the file_path of this add, and leaves the
\* pending count as it was.
C13_SecondAddReplaces ==
    [][\A t \in Threads :
          (/\ pc[t] = "loaded"
           /\ pc'[t] = "writing"
           /\ call[t].op = "add_pending_cleanup"
           /\ RecordsOfKey(snap[t], call[t].source, call[t].track_info) # {})
          => /\ Cardinality(RecordsOfKey(snap'[t], call[t].source, call[t].track_info)) = 1
             /\ \A i \in RecordsOfKey(snap'[t], call[t].source, call[t].track_info) :
                   snap'[t].pending_cleanup[call[t].source][i].file_path
                      = call[t].track_info.file_path
             /\ GetPendingCount(snap'[t]) = GetPendingCount(snap[t])]_vars

\* a second add with another file_path is being saved
C13_Witness ==
    \E t \in Threads :
        /\ pc[t] = "writing"
        /\ call[t].op = "add_pending_cleanup"
        /\ LET before == LoadUserData(preCrash[UserFile(call[t].user)])
               old == RecordsOfKey(before, call[t].source, call[t].track_info)
               new == RecordsOfKey(snap[t], call[t].source, call[t].track_info)
           IN /\ old # {}
              /\ \A i \in old : before.pending_cleanup[call[t].source][i].file_path
                                   # call[t].track_info.file_path
              /\ \E i \in new : snap[t].pending_cleanup[call[t].source][i].file_path
                                   = call[t].track_info.file_path
              /\ GetPendingCount(before) = GetPendingCount(snap[t])

\* a user's data without the pending records of a track
OtherRecords(data, artist, title) ==
    LET pending == Get(data, "pending_cleanup", EmptyDict)
    IN SetKey(data, "pending_cleanup",
              [s \in DOMAIN pending |->
                 Filter(pending[s],
                        {i \in DOMAIN pending[s] :
                           Lower(Get(pending[s][i], "artist", <<>>)) # Lower(artist)
                           \/ Lower(Get(pending[s][i], "title", <<>>)) # Lower(title)})])

\* C23: when mark_as_manually_downloaded(user, artist, title) returns, the
\* user's file holds no pending record of that artist and title in any letter
\* case under any source, holds the user's other records as before, and the
\* files of the other users are as before.
C23_ManualDownloadClaims ==
    [][\A t \in Threads :
          (/\ call[t].op = "mark_as_manually_downloaded"
           /\ pc[t] \in {"loaded", "writing"}
           /\ pc'[t] = "idle")
          => LET f == UserFile(call[t].user)
                 before == LoadUserData(IF pc[t] = "writing" THEN preCrash[f] ELSE file[f])
                 after == LoadUserData(file'[f])
             IN /\ ~IsPendingCleanup(after, call[t].artist, call[t].title)
                /\ after = OtherRecords(before, call[t].artist, call[t].title)
                /\ \A g \in StoreFiles \ {f} : file'[g] = file[g]]_vars

\* a manual download is being saved that takes the track out of both sources
\* of user a, leaves another track of user a, while user b has the track pending
C23_Witness ==
    \E t \in Threads :
        /\ pc[t] = "writing"
        /\ call[t].op = "mark_as_manually_downloaded"
        /\ call[t].user = UserA
        /\ LET before == LoadUserData(preCrash[UserFile(UserA)])
           IN /\ \A s \in PendingSources :
                    RecordsOfKey(before, s, [artist |-> call[t].artist,
                                             title |-> call[t].title]) # {}
              /\ GetPendingCount(before) > GetPendingCount(snap[t])
        /\ GetPendingCount(snap[t]) > 0
        /\ IsPendingCleanup(LoadUserData(file[UserFile(UserB)]), call[t].artist, call[t].title)

----------------------------------------------------------------------------
(* DataStore: monitored playlists, as the scheduler uses them *)

\* _migrate_monitored_playlists: the legacy list grouped by each entry's
\* username, '__global__' when it has none; the groups, by owner.
MigratedOwner(playlist) == Get(playlist, "username", GlobalUser)

MigrateMonitoredPlaylists(legacy_playlists, username) ==
    Filter(legacy_playlists,
           {i \in DOMAIN legacy_playlists : MigratedOwner(legacy_playlists[i]) = username})

\* get_all_users: the names of the user files, '__global__' left out
GetAllUsers == {f \in StoreFiles : file[f].kind # "absent" /\ f # GlobalUser}

\* a fixed order of the user names, for os.listdir
RECURSIVE SetToSeq(_)
SetToSeq(S) ==
    IF S = {} THEN <<>>
    ELSE LET x == CHOOSE x \in S : TRUE IN <<x>> \o SetToSeq(S \ {x})

RECURSIVE Concat(_, _)
Concat(users, store) ==
    IF users = <<>> THEN <<>>
    ELSE LoadUserData(store[UserFile(Head(users))]).monitored_playlists
            \o Concat(Tail(users), store)

\* get_monitored_playlists(None): every user's list, then '__global__''s
GetAllMonitoredPlaylists ==
    Concat(SetToSeq(GetAllUsers) \o <<GlobalUser>>, file)

\* The owner whose data a playlist_monitor call works on: the given username,
\* or, when it is empty, the first of get_all_users() whose list has the id
\* (playlist_monitor.mark_synced, playlist_monitor.update_monitored_playlist).
HasPlaylist(username, playlist_id) ==
    LET playlists == LoadUserData(file[UserFile(username)]).monitored_playlists
    IN \E i \in DOMAIN playlists : playlists[i].id = playlist_id

OwnerFor(username, playlist_id) ==
    IF username # <<>> THEN {username}
    ELSE {u \in GetAllUsers : HasPlaylist(u, playlist_id)}

\* a DataStore operation run to completion under the owner's lock
StoreWrite(store, username, result) ==
    IF result.save THEN [store EXCEPT ![UserFile(username)] = Json(result.data)] ELSE store

\* mark_synced(playlist_id, track_count, username=username)
MarkSynced(store, playlist_id, track_count, username, at) ==
    LET owners == OwnerFor(username, playlist_id)
    IN IF owners = {} THEN store
       ELSE LET u == CHOOSE u \in owners : TRUE
            IN StoreWrite(store, u,
                          MarkPlaylistSynced(LoadUserData(store[UserFile(u)]),
                                             playlist_id, track_count, at))

\* playlist_monitor.update_monitored_playlist(playlist_id, updates, username)
UpdateMonitored(store, playlist_id, updates, username) ==
    LET owners == OwnerFor(username, playlist_id)
    IN IF owners = {} THEN store
       ELSE LET u == CHOOSE u \in owners : TRUE
            IN StoreWrite(store, u,
                          UpdateMonitoredPlaylist(LoadUserData(store[UserFile(u)]),
                                                  playlist_id, updates))

----------------------------------------------------------------------------
(* playlist_monitor: the scheduler loop and its start and stop *)

MaxNow == 1
MaxLoops == 2
MaxCallers == 2

Loops == 1..MaxLoops
Callers == 1..MaxCallers

\* Two targets as a legacy monitored_playlists.json lists them: one of user a,
\* one without a username, which migration stores under '__global__'.
TargetA == [id |-> "pl1", url |-> "url1", name |-> "Mix", username |-> UserA,
            poll_interval_hours |-> 1, enabled |-> TRUE,
            last_synced |-> NoTime, last_track_count |-> 0]
TargetG == [id |-> "pl2", url |-> "url2", name |-> "Mix", poll_interval_hours |-> 1,
            enabled |-> TRUE, last_synced |-> NoTime, last_track_count |-> 0]
LegacyPlaylists == <<TargetA, TargetG>>
TargetIds == {"pl1", "pl2"}

NoEntry == [id |-> None]
IdleLoop == [pc |-> "unborn", playlists |-> <<>>, idx |-> 0, entry |-> NoEntry,
             track_count |-> NoCount, now |-> 0]

InSync(l) == loop[l].pc \in {"extract", "download", "mark"}

\* Thread.is_alive(): started and not yet finished
IsAlive(l) == loop[l].pc \notin {"unborn", "created", "exited"}

\* the persisted entry of a target, wherever it is stored
StoredTargets(store) ==
    UNION {{LoadUserData(store[f]).monitored_playlists[i] :
               i \in DOMAIN LoadUserData(store[f]).monitored_playlists} : f \in StoreFiles}

StoredTarget(store, id) == CHOOSE p \in StoredTargets(store) : p.id = id

\* start_scheduler, line 256: return when a scheduler thread is alive
StartCheck(c) ==
    /\ ctl[c].pc = "idle"
    /\ ~(schedThread # 0 /\ IsAlive(schedThread))
    /\ ctl' = [ctl EXCEPT ![c].pc = "checked"]
    /\ UNCHANGED <<file, now, running, schedThread, loop, syncedOnce>>
    /\ UNCHANGED <<stopCalled, storeThreadVars, cleanVars, migVars, resolveVars, protectVars, evalVars, regVars, batchVars, histVars, restartVars, normVars, scanVars, httpVars>>

\* start_scheduler, lines 259-263: _scheduler_thread = threading.Thread(...)
StartCreate(c) ==
    /\ ctl[c].pc = "checked"
    /\ \E l \in Loops :
          /\ loop[l].pc = "unborn"
          /\ \A k \in Loops : k < l => loop[k].pc # "unborn"
          /\ loop' = [loop EXCEPT ![l].pc = "created"]
          /\ schedThread' = l
          /\ ctl' = [ctl EXCEPT ![c] = [pc |-> "created", thread |-> l]]
    /\ UNCHANGED <<file, now, running, syncedOnce>>
    /\ UNCHANGED <<stopCalled, storeThreadVars, cleanVars, migVars, resolveVars, protectVars, evalVars, regVars, batchVars, histVars, restartVars, normVars, scanVars, httpVars>>

\* start_scheduler, line 264: _scheduler_thread.start(), which starts the
\* thread that is in the global at that moment
StartThread(c) ==
    /\ ctl[c].pc = "created"
    /\ loop[schedThread].pc = "created"
    /\ loop' = [loop EXCEPT ![schedThread].pc = "begin"]
    /\ ctl' = [ctl EXCEPT ![c] = [pc |-> "idle", thread |-> 0]]
    /\ UNCHANGED <<file, now, running, schedThread, syncedOnce>>
    /\ UNCHANGED <<stopCalled, storeThreadVars, cleanVars, migVars, resolveVars, protectVars, evalVars, regVars, batchVars, histVars, restartVars, normVars, scanVars, httpVars>>

\* the same line when another caller has already started that thread:
\* Thread.start() raises RuntimeError
StartThreadTwice(c) ==
    /\ ctl[c].pc = "created"
    /\ loop[schedThread].pc # "created"
    /\ ctl' = [ctl EXCEPT ![c] = [pc |-> "idle", thread |-> 0]]
    /\ UNCHANGED <<file, now, running, schedThread, loop, syncedOnce>>
    /\ UNCHANGED <<stopCalled, storeThreadVars, cleanVars, migVars, resolveVars, protectVars, evalVars, regVars, batchVars, histVars, restartVars, normVars, scanVars, httpVars>>

\* stop_scheduler
StopScheduler(c) ==
    /\ ctl[c].pc = "idle"
    /\ running' = FALSE
    /\ stopCalled' = TRUE
    /\ UNCHANGED <<file, now, schedThread, loop, ctl, syncedOnce>>
    /\ UNCHANGED <<storeThreadVars, cleanVars, migVars, resolveVars, protectVars, evalVars, regVars, batchVars, histVars, restartVars, normVars, scanVars, httpVars>>

\* _scheduler_loop, line 199: _scheduler_running = True
LoopBegin(l) ==
    /\ loop[l].pc = "begin"
    /\ running' = TRUE
    /\ loop' = [loop EXCEPT ![l].pc = "while"]
    /\ UNCHANGED <<file, now, schedThread, ctl, syncedOnce>>
    /\ UNCHANGED <<stopCalled, storeThreadVars, cleanVars, migVars, resolveVars, protectVars, evalVars, regVars, batchVars, histVars, restartVars, normVars, scanVars, httpVars>>

\* line 201, flag set: lines 203-204, playlists = get_monitored_playlists()
LoopList(l) ==
    /\ loop[l].pc = "while"
    /\ running
    /\ loop' = [loop EXCEPT ![l] = [pc |-> "iter", playlists |-> GetAllMonitoredPlaylists,
                                    idx |-> 1, entry |-> NoEntry, track_count |-> NoCount,
                                    now |-> now]]
    /\ UNCHANGED <<file, now, running, schedThread, ctl, syncedOnce>>
    /\ UNCHANGED <<stopCalled, storeThreadVars, cleanVars, migVars, resolveVars, protectVars, evalVars, regVars, batchVars, histVars, restartVars, normVars, scanVars, httpVars>>

\* line 201, flag cleared: the loop thread ends
LoopExit(l) ==
    /\ loop[l].pc = "while"
    /\ ~running
    /\ loop' = [loop EXCEPT ![l] = [IdleLoop EXCEPT !.pc = "exited"]]
    /\ UNCHANGED <<file, now, running, schedThread, ctl, syncedOnce>>
    /\ UNCHANGED <<stopCalled, storeThreadVars, cleanVars, migVars, resolveVars, protectVars, evalVars, regVars, batchVars, histVars, restartVars, normVars, scanVars, httpVars>>

IsDueStrictlyLater(entry, pass_now) ==
    /\ Get(entry, "enabled", TRUE)
    /\ LET last_synced == Get(entry, "last_synced", NoTime)
       IN \/ last_synced = NoTime
          \/ last_synced = BadTime
          \/ /\ last_synced[1] = "iso"
             /\ pass_now - last_synced[2] > Get(entry, "poll_interval_hours", 24)

\* lines 207-220: the entry is due for a sync
IsDue(entry, pass_now) ==
    /\ Get(entry, "enabled", TRUE)
    /\ LET last_synced == Get(entry, "last_synced", NoTime)
       IN \/ last_synced = NoTime
          \/ last_synced = BadTime
          \/ /\ last_synced[1] = "iso"
             /\ ~(pass_now - last_synced[2] < Get(entry, "poll_interval_hours", 24))

\* an entry that is not due is passed over
LoopSkip(l) ==
    /\ loop[l].pc = "iter"
    /\ loop[l].idx <= Len(loop[l].playlists)
    /\ ~IsDue(loop[l].playlists[loop[l].idx], loop[l].now)
    /\ loop' = [loop EXCEPT ![l].idx = @ + 1]
    /\ UNCHANGED <<file, now, running, schedThread, ctl, syncedOnce>>
    /\ UNCHANGED <<stopCalled, storeThreadVars, cleanVars, migVars, resolveVars, protectVars, evalVars, regVars, batchVars, histVars, restartVars, normVars, scanVars, httpVars>>

\* lines 222-241: a due entry; _sync_playlist(entry, ...) begins
SyncBegin(l) ==
    /\ loop[l].pc = "iter"
    /\ loop[l].idx <= Len(loop[l].playlists)
    /\ IsDue(loop[l].playlists[loop[l].idx], loop[l].now)
    /\ loop' = [loop EXCEPT ![l].pc = "extract", ![l].entry = loop[l].playlists[loop[l].idx]]
    /\ UNCHANGED <<file, now, running, schedThread, ctl, syncedOnce>>
    /\ UNCHANGED <<stopCalled, storeThreadVars, cleanVars, migVars, resolveVars, protectVars, evalVars, regVars, batchVars, histVars, restartVars, normVars, scanVars, httpVars>>

\* _sync_playlist, lines 113-123: extract_playlist_tracks returns tracks, or
\* returns none or raises (track_count stays None). The entries of the store
\* carry no auto_cleanup key, so lines 127-145 do nothing.
SyncExtract(l) ==
    /\ loop[l].pc = "extract"
    /\ \E count \in {NoCount, <<2>>} :
          loop' = [loop EXCEPT ![l].pc = "download", ![l].track_count = count]
    /\ UNCHANGED <<file, now, running, schedThread, ctl, syncedOnce>>
    /\ UNCHANGED <<stopCalled, storeThreadVars, cleanVars, migVars, resolveVars, protectVars, evalVars, regVars, batchVars, histVars, restartVars, normVars, scanVars, httpVars>>

\* _sync_playlist, lines 147-191: download_playlist raises, or returns and
\* the name Navidrome has for the playlist is written back when it differs
SyncDownload(l) ==
    /\ loop[l].pc = "download"
    /\ \E nd_name \in {None, "Mix2"} :
          LET entry == loop[l].entry
              updates == IF nd_name \in {None, Get(entry, "name", "")}
                         THEN EmptyDict ELSE [name |-> nd_name]
          IN file' = IF updates = EmptyDict THEN file
                     ELSE UpdateMonitored(file, entry.id, updates, Get(entry, "username", <<>>))
    /\ loop' = [loop EXCEPT ![l].pc = "mark"]
    /\ UNCHANGED <<now, running, schedThread, ctl, syncedOnce>>
    /\ UNCHANGED <<stopCalled, storeThreadVars, cleanVars, migVars, resolveVars, protectVars, evalVars, regVars, batchVars, histVars, restartVars, normVars, scanVars, httpVars>>

\* _sync_playlist, line 193: mark_synced(playlist_id, track_count, username)
SyncMark(l) ==
    /\ loop[l].pc = "mark"
    /\ LET entry == loop[l].entry
       IN /\ file' = MarkSynced(file, entry.id, loop[l].track_count,
                                Get(entry, "username", <<>>), now)
          /\ syncedOnce' = syncedOnce \cup {entry.id}
    /\ loop' = [loop EXCEPT ![l].pc = "iter", ![l].idx = @ + 1, ![l].entry = NoEntry,
                            ![l].track_count = NoCount]
    /\ UNCHANGED <<now, running, schedThread, ctl>>
    /\ UNCHANGED <<stopCalled, storeThreadVars, cleanVars, migVars, resolveVars, protectVars, evalVars, regVars, batchVars, histVars, restartVars, normVars, scanVars, httpVars>>

\* the for loop is over: lines 247-250, the five-minute wait
LoopSleep(l) ==
    /\ loop[l].pc = "iter"
    /\ loop[l].idx > Len(loop[l].playlists)
    /\ loop' = [loop EXCEPT ![l] = [IdleLoop EXCEPT !.pc = "sleep"]]
    /\ UNCHANGED <<file, now, running, schedThread, ctl, syncedOnce>>
    /\ UNCHANGED <<stopCalled, storeThreadVars, cleanVars, migVars, resolveVars, protectVars, evalVars, regVars, batchVars, histVars, restartVars, normVars, scanVars, httpVars>>

\* the wait ends: 300 seconds have passed, or the flag was found cleared
LoopWake(l) ==
    /\ loop[l].pc = "sleep"
    /\ loop' = [loop EXCEPT ![l].pc = "while"]
    /\ UNCHANGED <<file, now, running, schedThread, ctl, syncedOnce>>
    /\ UNCHANGED <<stopCalled, storeThreadVars, cleanVars, migVars, resolveVars, protectVars, evalVars, regVars, batchVars, histVars, restartVars, normVars, scanVars, httpVars>>

\* an hour passes
Tick ==
    /\ now < MaxNow
    /\ now' = now + 1
    /\ UNCHANGED <<file, running, schedThread, loop, ctl, syncedOnce>>
    /\ UNCHANGED <<stopCalled, storeThreadVars, cleanVars, migVars, resolveVars, protectVars, evalVars, regVars, batchVars, histVars, restartVars, normVars, scanVars, httpVars>>

SchedVarsInit ==
    /\ now = 0
    /\ running = FALSE
    /\ schedThread = 0
    /\ loop = [l \in Loops |-> IdleLoop]
    /\ ctl = [c \in Callers |-> [pc |-> "idle", thread |-> 0]]
    /\ syncedOnce = {}
    /\ stopCalled = FALSE

\* DataStore() on a data directory holding the legacy monitored_playlists.json
SchedInit ==
    /\ file = [f \in StoreFiles |->
                 IF MigrateMonitoredPlaylists(LegacyPlaylists, f) = <<>> THEN NoFile
                 ELSE Json(SetKey(DefaultUserData, "monitored_playlists",
                                  MigrateMonitoredPlaylists(LegacyPlaylists, f)))]
    /\ serial = file
    /\ preCrash = file
    /\ postCrash = file
    /\ StoreThreadsInit
    /\ SchedVarsInit

SchedStep ==
    \/ \E c \in Callers : StartCheck(c) \/ StartCreate(c) \/ StartThread(c)
                          \/ StartThreadTwice(c) \/ StopScheduler(c)
    \/ \E l \in Loops : LoopBegin(l) \/ LoopList(l) \/ LoopExit(l) \/ LoopSkip(l)
                        \/ SyncBegin(l) \/ SyncExtract(l) \/ SyncDownload(l)
                        \/ SyncMark(l) \/ LoopSleep(l) \/ LoopWake(l)
    \/ Tick

----------------------------------------------------------------------------
(* apis/navidrome_api: song protection and the deletion rules *)

\* Ratings are held in half stars, the scale of Navidrome's annotation.rating
\* column: the code's rating is db_rating / 2, so n stars are 2 * n half stars.
Stars(n) == 2 * n

MaxDbRating == 10

\* str() of a max_rating of at most two stars, as the f-string of line 778
\* prints it: the int 0 of line 103, or the float db_rating / 2
FormatRating(max_rating) ==
    CASE max_rating = 0 -> "0"
      [] max_rating = 1 -> "0.5"
      [] max_rating = 2 -> "1.0"
      [] max_rating = 3 -> "1.5"
      [] max_rating = 4 -> "2.0"

Max(a, b) == IF a >= b THEN a ELSE b

\* recommendation_playlist_names
RecommendationPlaylistNames ==
    { <<"l","i","s","t","e","n","b","r","a","i","n","z"," ","w","e","e","k","l","y">>,
      <<"l","a","s","t",".","f","m"," ","w","e","e","k","l","y">>,
      <<"l","l","m"," ","w","e","e","k","l","y">> }

\* the result dict of _check_song_protection as it starts out; its 'reasons'
\* list is only printed and is left out
NoProtection ==
    [protected |-> FALSE, max_rating |-> 0, has_one_star |-> FALSE,
     in_user_playlist |-> FALSE, has_interaction |-> FALSE, is_starred |-> FALSE]

\* a row handling that would keep the rating of the row read last
AnnotationRowLastWins(result, row) ==
    LET rating == row.rating
        r1 == IF rating > 0 \/ row.starred
              THEN [result EXCEPT !.has_interaction = TRUE] ELSE result
        r2 == IF 0 < rating /\ rating <= Stars(1)
              THEN [r1 EXCEPT !.has_one_star = TRUE] ELSE r1
        r3 == [r2 EXCEPT !.max_rating = rating]
    IN IF row.starred
       THEN [r3 EXCEPT !.is_starred = TRUE, !.max_rating = Max(@, Stars(5))]
       ELSE r3

\* lines 126-147: one row of the annotation table; row.starred stands for
\* "starred or starred_at"
AnnotationRow(result, row) ==
    LET rating == row.rating
        r1 == IF rating > 0 \/ row.starred
              THEN [result EXCEPT !.has_interaction = TRUE] ELSE result
        r2 == IF 0 < rating /\ rating <= Stars(1)
              THEN [r1 EXCEPT !.has_one_star = TRUE] ELSE r1
        r3 == [r2 EXCEPT !.max_rating = Max(@, rating)]
    IN IF row.starred
       THEN [r3 EXCEPT !.is_starred = TRUE, !.max_rating = Max(@, Stars(5))]
       ELSE r3

\* lines 125-147: for row in cursor.fetchall()
RECURSIVE AnnotationRows(_, _)
AnnotationRows(result, rows) ==
    IF rows = <<>> THEN result
    ELSE AnnotationRows(AnnotationRow(result, Head(rows)), Tail(rows))

PlaylistRowsCaseSensitive(result, names) ==
    IF \E i \in DOMAIN names : names[i] \notin RecommendationPlaylistNames
    THEN [result EXCEPT !.in_user_playlist = TRUE] ELSE result

\* lines 156-160: the playlists that hold the song
RECURSIVE PlaylistRows(_, _)
PlaylistRows(result, names) ==
    IF names = <<>> THEN result
    ELSE PlaylistRows(IF Lower(Head(names)) \notin RecommendationPlaylistNames
                      THEN [result EXCEPT !.in_user_playlist = TRUE] ELSE result,
                      Tail(names))

\* _check_song_protection, on the path that queries Navidrome's database
CheckSongProtection(song) ==
    LET r == PlaylistRows(AnnotationRows(NoProtection, song.rows), song.playlists)
    IN [r EXCEPT !.protected = r.max_rating > Stars(2) \/ r.is_starred \/ r.in_user_playlist]

\* the reason of a decision: the pieces of the string, None for no reason
NoReason == <<None>>
Keep == [should_delete |-> FALSE, reason |-> NoReason]
Delete(reason) == [should_delete |-> TRUE, reason |-> reason]

ShouldDeleteSongStrictRating(protection, is_discover_weekly) ==
    IF ~is_discover_weekly THEN Keep
    ELSE IF ~protection.has_interaction THEN Delete(<<"no user interaction">>)
    ELSE IF protection.max_rating < Stars(2) /\ ~protection.in_user_playlist
         THEN Delete(<<"low rating (", FormatRating(protection.max_rating),
                       ") and not in any playlist">>)
    ELSE Keep

ShouldDeleteSongSilenceIsNeutral(protection, is_discover_weekly) ==
    IF ~is_discover_weekly THEN Keep
    ELSE IF protection.max_rating <= Stars(2) /\ ~protection.in_user_playlist
         THEN Delete(<<"low rating (", FormatRating(protection.max_rating),
                       ") and not in any playlist">>)
    ELSE Keep

ShouldDeleteSongAnyOneStar(protection, is_discover_weekly) ==
    IF is_discover_weekly THEN Keep
    ELSE IF protection.has_one_star THEN Delete(<<"1-star with no other user protection">>)
    ELSE Keep

\* _should_delete_song
ShouldDeleteSong(protection, is_discover_weekly) ==
    IF is_discover_weekly
    THEN IF ~protection.has_interaction
         THEN Delete(<<"no user interaction">>)
         ELSE IF protection.max_rating <= Stars(2) /\ ~protection.in_user_playlist
         THEN Delete(<<"low rating (", FormatRating(protection.max_rating),
                       ") and not in any playlist">>)
         ELSE Keep
    ELSE IF ~protection.has_one_star
         THEN Keep
         ELSE IF \/ protection.is_starred
                 \/ protection.in_user_playlist
                 \/ protection.max_rating > Stars(2)
         THEN Keep
         ELSE Delete(<<"1-star with no other user protection">>)

\* the protection dicts _should_delete_song may be given
Protections ==
    [protected : BOOLEAN, max_rating : 0..MaxDbRating, has_one_star : BOOLEAN,
     in_user_playlist : BOOLEAN, has_interaction : BOOLEAN, is_starred : BOOLEAN]

NoDecide == [protection |-> NoProtection, is_discover_weekly |-> FALSE, done |-> FALSE,
             out |-> Keep]

DecideInit ==
    decide \in {[NoDecide EXCEPT !.protection = p, !.is_discover_weekly = dw] :
                   p \in Protections, dw \in BOOLEAN}

\* should_delete, delete_reason = self._should_delete_song(protection, ...)
Decide ==
    /\ ~decide.done
    /\ decide' = [decide EXCEPT !.done = TRUE,
                                !.out = ShouldDeleteSong(decide.protection,
                                                         decide.is_discover_weekly)]
    /\ UNCHANGED <<history, library, clean, deleted>>
    /\ UNCHANGED <<storeVars, schedVars, migVars, resolveVars, protectVars, evalVars, regVars, batchVars, histVars, restartVars, normVars, scanVars, httpVars>>

----------------------------------------------------------------------------
(* apis/navidrome_api: the cleanup pass over the download history *)

MaxRows == 2
MaxPlaylists == 1

Songs == {"n1", "n2"}

Absent == [present |-> FALSE]
PlainSong == [present |-> TRUE, rows |-> <<>>, playlists |-> <<>>]

\* db_rating: unrated, 1 star, 2 stars, 3 stars
DbRatings == {0, 2, 4, 6}

SeqsUpTo(S, n) == UNION {[1..k -> S] : k \in 0..n}

LlmWeekly == <<"L","L","M"," ","W","e","e","k","l","y">>
UserMix == <<"M","i","x">>

\* the states song n1 may be in: any rows of the annotation table, any playlists
SongStates ==
    {Absent} \cup
    [present : {TRUE},
     rows : SeqsUpTo([rating : DbRatings, starred : BOOLEAN], MaxRows),
     playlists : SeqsUpTo({LlmWeekly, UserMix}, MaxPlaylists)]

Libraries ==
    {[n \in Songs |-> IF n = "n1" THEN s1 ELSE s2] :
        s1 \in SongStates, s2 \in {Absent, PlainSong}}

HistTrack1 == [artist |-> Artist1, title |-> TitleX, navidrome_id |-> "n1",
               file_path |-> "p1"]
HistTrack2 == [artist |-> Artist1Upper, title |-> TitleY, navidrome_id |-> "n2",
               file_path |-> "p2"]
HistTrackNoId == [artist |-> Artist1, title |-> TitleXUpper, navidrome_id |-> "",
                  file_path |-> "p3"]

\* download histories: sources under the discover-weekly rules (ListenBrainz,
\* Last.fm) and under the standard rules (Playlist), a source without tracks,
\* and the empty history
Histories ==
    { EmptyDict,
      "ListenBrainz" :> <<HistTrack1, HistTrack2>>,
      ("ListenBrainz" :> <<HistTrack2>>) @@ ("Playlist" :> <<HistTrack1>>),
      ("Last.fm" :> <<>>) @@ ("Playlist" :> <<HistTrack1, HistTrackNoId>>) }

\* remove_from_download_history
RemoveFromDownloadHistory(h, source_name, artist, title) ==
    IF source_name \notin DOMAIN h THEN h
    ELSE LET tracks == h[source_name]
         IN [h EXCEPT ![source_name] =
                Filter(tracks, {i \in DOMAIN tracks :
                                   ~SameTrack(tracks[i], Lower(artist), Lower(title))})]

\* lines 910-911: for track in tracks_to_remove
RECURSIVE RemoveProcessed(_, _, _)
RemoveProcessed(h, source_name, tracks_to_remove) ==
    IF tracks_to_remove = <<>> THEN h
    ELSE RemoveProcessed(
             RemoveFromDownloadHistory(h, source_name,
                                       Get(Head(tracks_to_remove), "artist", <<>>),
                                       Get(Head(tracks_to_remove), "title", <<>>)),
             source_name, Tail(tracks_to_remove))

DiscoverWeeklySources == {"ListenBrainz", "Last.fm", "LLM"}

\* song_details = self._get_song_details(nd_id, salt, token) if nd_id else None;
\* _get_song_details returns None for a song Navidrome does not have and
\* also when the request fails or is answered with an error
SongDetails(lib, nd_id, request_failed) ==
    IF nd_id # "" /\ ~request_failed /\ nd_id \in DOMAIN lib /\ lib[nd_id].present
    THEN lib[nd_id] ELSE Absent

ProcessTrackKeepPending(song_details, is_discover_weekly) ==
    IF ~song_details.present
    THEN [decision |-> "NOT_FOUND", reason |-> NoReason, remove |-> TRUE]
    ELSE LET d == ShouldDeleteSong(CheckSongProtection(song_details), is_discover_weekly)
         IN IF ~d.should_delete
            THEN [decision |-> "KEEP", reason |-> NoReason, remove |-> FALSE]
            ELSE [decision |-> "DELETE", reason |-> d.reason, remove |-> TRUE]

\* lines 852-900, the body of "for track in tracks": what is decided for the
\* track and whether it is appended to tracks_to_remove
ProcessTrack(song_details, is_discover_weekly) ==
    IF ~song_details.present
    THEN [decision |-> "NOT_FOUND", reason |-> NoReason, remove |-> TRUE]
    ELSE LET d == ShouldDeleteSong(CheckSongProtection(song_details), is_discover_weekly)
         IN IF ~d.should_delete
            THEN [decision |-> "KEEP", reason |-> NoReason, remove |-> TRUE]
            ELSE [decision |-> "DELETE", reason |-> d.reason, remove |-> TRUE]

IdleClean == [pc |-> "idle", history |-> EmptyDict, sources |-> <<>>, si |-> 0, ti |-> 0,
              tracks_to_remove |-> <<>>, evaluated |-> {}]

\* lines 810-815: the history is loaded; an empty one ends the pass
CleanupLoad ==
    /\ clean.pc = "idle"
    /\ clean' = IF history = EmptyDict
                THEN [clean EXCEPT !.pc = "done"]
                ELSE [clean EXCEPT !.pc = "source", !.history = history,
                                   !.sources = SetToSeq(DOMAIN history), !.si = 1]
    /\ UNCHANGED <<history, library, deleted, decide>>
    /\ UNCHANGED <<storeVars, schedVars, migVars, resolveVars, protectVars, evalVars, regVars, batchVars, histVars, restartVars, normVars, scanVars, httpVars>>

\* lines 829-843: the next source; one without tracks is passed over
CleanupSource ==
    /\ clean.pc = "source"
    /\ clean.si <= Len(clean.sources)
    /\ clean' = IF clean.history[clean.sources[clean.si]] = <<>>
                THEN [clean EXCEPT !.si = @ + 1]
                ELSE [clean EXCEPT !.pc = "track", !.ti = 1, !.tracks_to_remove = <<>>]
    /\ UNCHANGED <<history, library, deleted, decide>>
    /\ UNCHANGED <<storeVars, schedVars, migVars, resolveVars, protectVars, evalVars, regVars, batchVars, histVars, restartVars, normVars, scanVars, httpVars>>

\* lines 845-907: one track of the source. The request for the song's
\* details may fail. A song to delete is removed from disk and from
\* Navidrome's database, unless _delete_song fails.
CleanupTrack ==
    /\ clean.pc = "track"
    /\ clean.ti <= Len(clean.history[clean.sources[clean.si]])
    /\ \E request_failed \in BOOLEAN :
       LET source_name == clean.sources[clean.si]
           track == clean.history[source_name][clean.ti]
           nd_id == Get(track, "navidrome_id", "")
           song_details == SongDetails(library, nd_id, request_failed)
           r == ProcessTrack(song_details, source_name \in DiscoverWeeklySources)
       IN /\ clean' = [clean EXCEPT
                          !.ti = @ + 1,
                          !.tracks_to_remove = IF r.remove THEN Append(@, track) ELSE @,
                          !.evaluated = @ \cup {[source |-> source_name, track |-> track,
                                                 decision |-> r.decision,
                                                 reason |-> r.reason,
                                                 in_library |-> /\ nd_id \in DOMAIN library
                                                                /\ library[nd_id].present]}]
          /\ \E delete_failed \in BOOLEAN :
                IF r.decision = "DELETE" /\ ~delete_failed
                THEN /\ library' = [library EXCEPT ![nd_id] = Absent]
                     /\ deleted' = deleted \cup {[id |-> nd_id, song |-> song_details,
                                                  source |-> source_name,
                                                  reason |-> r.reason]}
                ELSE UNCHANGED <<library, deleted>>
    /\ UNCHANGED <<history, decide>>
    /\ UNCHANGED <<storeVars, schedVars, migVars, resolveVars, protectVars, evalVars, regVars, batchVars, histVars, restartVars, normVars, scanVars, httpVars>>

\* lines 909-911: the processed tracks leave the history file
CleanupRemove ==
    /\ clean.pc = "track"
    /\ clean.ti > Len(clean.history[clean.sources[clean.si]])
    /\ history' = RemoveProcessed(history, clean.sources[clean.si], clean.tracks_to_remove)
    /\ clean' = [clean EXCEPT !.pc = "source", !.si = @ + 1, !.tracks_to_remove = <<>>]
    /\ UNCHANGED <<library, deleted, decide>>
    /\ UNCHANGED <<storeVars, schedVars, migVars, resolveVars, protectVars, evalVars, regVars, batchVars, histVars, restartVars, normVars, scanVars, httpVars>>

\* the loop over the sources is over: the summary is printed
CleanupFinish ==
    /\ clean.pc = "source"
    /\ clean.si > Len(clean.sources)
    /\ clean' = [clean EXCEPT !.pc = "done"]
    /\ UNCHANGED <<history, library, deleted, decide>>
    /\ UNCHANGED <<storeVars, schedVars, migVars, resolveVars, protectVars, evalVars, regVars, batchVars, histVars, restartVars, normVars, scanVars, httpVars>>

CleanVarsInit ==
    /\ history = EmptyDict
    /\ library = [n \in Songs |-> Absent]
    /\ clean = IdleClean
    /\ deleted = {}
    /\ decide = NoDecide

CleanupInit ==
    /\ history \in Histories
    /\ library \in Libraries
    /\ clean = IdleClean
    /\ deleted = {}
    /\ decide = NoDecide

CleanupStep ==
    CleanupLoad \/ CleanupSource \/ CleanupTrack \/ CleanupRemove \/ CleanupFinish

----------------------------------------------------------------------------
(* apis/navidrome_api: the download history file under concurrent use *)

\* add_to_download_history: what it writes for the history it loaded
AddToDownloadHistory(h, source_name, track_entry) ==
    LET h1 == IF source_name \in DOMAIN h THEN h ELSE h @@ (source_name :> <<>>)
        tracks == h1[source_name]
        same == {i \in DOMAIN tracks :
                    SameTrack(tracks[i], Lower(Get(track_entry, "artist", <<>>)),
                              Lower(Get(track_entry, "title", <<>>)))}
    IN IF same # {}
       THEN [h1 EXCEPT ![source_name][Min(same)].file_path = track_entry.file_path]
       ELSE [h1 EXCEPT ![source_name] = Append(tracks, track_entry)]

HistTrack2Again == [HistTrack2 EXCEPT !.file_path = "p9"]

\* history files in which track 1 awaits cleanup
SharedHistories ==
    { "ListenBrainz" :> <<HistTrack1>>,
      "ListenBrainz" :> <<HistTrack1, HistTrack2>>,
      ("ListenBrainz" :> <<HistTrack1>>) @@ ("Playlist" :> <<HistTrack1>>),
      "Playlist" :> <<HistTrack1>> }

NoHist == [add |-> [pc |-> "done", source_name |-> "", track_entry |-> HistTrack2,
                    history |-> EmptyDict],
           rem |-> [pc |-> "done", source_name |-> "", track |-> HistTrack1,
                    history |-> EmptyDict]]

HistIdle == hist = NoHist

\* a download records track 2 while a cleanup pass removes track 1
HistInit ==
    /\ history \in SharedHistories
    /\ library = [n \in Songs |-> PlainSong]
    /\ clean = IdleClean
    /\ deleted = {}
    /\ decide = NoDecide
    /\ hist \in {[NoHist EXCEPT !.add.pc = "start", !.add.source_name = s1,
                                !.add.track_entry = e, !.rem.pc = "start",
                                !.rem.source_name = s2] :
                    s1 \in {"ListenBrainz", "Playlist"}, e \in {HistTrack2, HistTrack2Again},
                    s2 \in {"ListenBrainz", "Playlist"}}

\* add_to_download_history: history = self._load_download_history(history_path)
HistAddLoad ==
    /\ hist.add.pc = "start"
    /\ hist' = [hist EXCEPT !.add.pc = "loaded", !.add.history = history]
    /\ UNCHANGED <<cleanVars, storeVars, schedVars, migVars, resolveVars, protectVars,
                   evalVars, regVars, batchVars, restartVars, normVars, scanVars, httpVars>>

\* add_to_download_history: the entry is updated or appended and the history saved
HistAddSave ==
    /\ hist.add.pc = "loaded"
    /\ history' = AddToDownloadHistory(hist.add.history, hist.add.source_name,
                                       hist.add.track_entry)
    /\ hist' = [hist EXCEPT !.add.pc = "done", !.add.history = EmptyDict]
    /\ UNCHANGED <<library, clean, deleted, decide>>
    /\ UNCHANGED <<storeVars, schedVars, migVars, resolveVars, protectVars, evalVars,
                   regVars, batchVars, restartVars, normVars, scanVars, httpVars>>

\* remove_from_download_history: history = self._load_download_history(history_path)
HistRemoveLoad ==
    /\ hist.rem.pc = "start"
    /\ hist' = [hist EXCEPT !.rem.pc = "loaded", !.rem.history = history]
    /\ UNCHANGED <<cleanVars, storeVars, schedVars, migVars, resolveVars, protectVars,
                   evalVars, regVars, batchVars, restartVars, normVars, scanVars, httpVars>>

\* remove_from_download_history: a source the loaded history does not have
HistRemoveReturn ==
    /\ hist.rem.pc = "loaded"
    /\ hist.rem.source_name \notin DOMAIN hist.rem.history
    /\ hist' = [hist EXCEPT !.rem.pc = "done", !.rem.history = EmptyDict]
    /\ UNCHANGED <<cleanVars, storeVars, schedVars, migVars, resolveVars, protectVars,
                   evalVars, regVars, batchVars, restartVars, normVars, scanVars, httpVars>>

\* remove_from_download_history: the filtered history is saved
HistRemoveSave ==
    /\ hist.rem.pc = "loaded"
    /\ hist.rem.source_name \in DOMAIN hist.rem.history
    /\ history' = RemoveFromDownloadHistory(hist.rem.history, hist.rem.source_name,
                                            hist.rem.track.artist, hist.rem.track.title)
    /\ hist' = [hist EXCEPT !.rem.pc = "done", !.rem.history = EmptyDict]
    /\ UNCHANGED <<library, clean, deleted, decide>>
    /\ UNCHANGED <<storeVars, schedVars, migVars, resolveVars, protectVars, evalVars,
                   regVars, batchVars, restartVars, normVars, scanVars, httpVars>>

\* C28: when the recording of a track and the removal of another track have
\* both returned, the history file holds the recorded track under its source.
C28_RecordedTrackSurvives ==
    (hist.add.pc = "done" /\ hist.rem.pc = "done" /\ hist.add.source_name # "") =>
        /\ hist.add.source_name \in DOMAIN history
        /\ \E i \in DOMAIN history[hist.add.source_name] :
              SameTrack(history[hist.add.source_name][i],
                        Lower(hist.add.track_entry.artist),
                        Lower(hist.add.track_entry.title))

----------------------------------------------------------------------------
(* Claims about the cleanup pass and the deletion rules *)

\* the records of a source in the history file
Pending(h, source_name) ==
    IF source_name \in DOMAIN h THEN {h[source_name][i] : i \in DOMAIN h[source_name]} ELSE {}

\* C6: when a cleanup pass has completed, no record for which the pass reached
\* a Keep or a Delete decision is still in the history it was pending in.
C6_DecidedRecordsRemoved ==
    clean.pc = "done" =>
        \A e \in clean.evaluated :
            e.decision \in {"KEEP", "DELETE"} => e.track \notin Pending(history, e.source)

C6_Witness ==
    /\ clean.pc = "done"
    /\ \E e1, e2 \in clean.evaluated :
          /\ e1.decision = "KEEP"
          /\ e2.decision = "DELETE"
          /\ e1.source # e2.source

\* some user rated the song above 2 stars or starred it, or it is in a
\* playlist that is not a recommendation playlist
SongIsProtected(song) ==
    \/ \E i \in DOMAIN song.rows : song.rows[i].rating > Stars(2) \/ song.rows[i].starred
    \/ \E i \in DOMAIN song.playlists :
          Lower(song.playlists[i]) \notin RecommendationPlaylistNames

\* C7: no song the cleanup pass deleted was protected, under the
\* discover-weekly rules and under the standard rules.
C7_ProtectedNeverDeleted == \A d \in deleted : ~SongIsProtected(d.song)

\* C8, as the specification words the reason: under the discover-weekly rules
\* the decision is Keep exactly when has_interaction and (max_rating > 2 or
\* in_user_playlist), and with has_interaction, max_rating <= 2 and no user
\* playlist it is Delete with reason "low rating and not in any playlist".
C8_ReasonAsSpecified ==
    (decide.done /\ decide.is_discover_weekly) =>
        LET p == decide.protection
        IN /\ ~decide.out.should_delete
                 <=> (p.has_interaction /\ (p.max_rating > Stars(2) \/ p.in_user_playlist))
           /\ (p.has_interaction /\ p.max_rating <= Stars(2) /\ ~p.in_user_playlist)
                 => decide.out = Delete(<<"low rating and not in any playlist">>)

\* C8: under the discover-weekly rules the decision is Keep exactly when
\* has_interaction and (max_rating > 2 or in_user_playlist), and with
\* has_interaction, max_rating <= 2 and no user playlist it is Delete with
\* reason "low rating (<max_rating>) and not in any playlist".
C8_DiscoverWeeklyDecision ==
    (decide.done /\ decide.is_discover_weekly) =>
        LET p == decide.protection
        IN /\ ~decide.out.should_delete
                 <=> (p.has_interaction /\ (p.max_rating > Stars(2) \/ p.in_user_playlist))
           /\ (p.has_interaction /\ p.max_rating <= Stars(2) /\ ~p.in_user_playlist)
                 => decide.out = Delete(<<"low rating (", FormatRating(p.max_rating),
                                          ") and not in any playlist">>)

C8_Witness ==
    /\ decide.done /\ decide.is_discover_weekly
    /\ decide.protection.has_interaction
    /\ decide.protection.max_rating = Stars(2)
    /\ ~decide.protection.in_user_playlist
    /\ decide.out.should_delete

\* C9, as the specification words the reason: under the discover-weekly rules
\* a protection without interaction yields Delete with reason "no interaction".
C9_ReasonAsSpecified ==
    (decide.done /\ decide.is_discover_weekly /\ ~decide.protection.has_interaction)
        => decide.out = Delete(<<"no interaction">>)

\* C9: under the discover-weekly rules a protection without interaction yields
\* Delete with reason "no user interaction", whatever max_rating, has_one_star,
\* is_starred and in_user_playlist are.
C9_NoInteractionDeletes ==
    (decide.done /\ decide.is_discover_weekly /\ ~decide.protection.has_interaction)
        => decide.out = Delete(<<"no user interaction">>)

C9_Witness ==
    /\ decide.done /\ decide.is_discover_weekly
    /\ ~decide.protection.has_interaction
    /\ decide.protection.in_user_playlist
    /\ decide.protection.is_starred
    /\ decide.protection.max_rating > Stars(2)
    /\ decide.out.should_delete

\* has_one_star and not (is_starred or in_user_playlist or max_rating > 2)
OneStarUnprotected(p) ==
    p.has_one_star /\ ~(p.is_starred \/ p.in_user_playlist \/ p.max_rating > Stars(2))

\* C10, as the specification words the reason: under the standard rules the
\* decision is Delete with reason "1-star with no other protection" exactly
\* when has_one_star and not (is_starred or in_user_playlist or
\* max_rating > 2), and Keep in every other case.
C10_ReasonAsSpecified ==
    (decide.done /\ ~decide.is_discover_weekly) =>
        decide.out = IF OneStarUnprotected(decide.protection)
                     THEN Delete(<<"1-star with no other protection">>)
                     ELSE Keep

\* C10: under the standard rules the decision is Delete with reason "1-star
\* with no other user protection" exactly when has_one_star and not
\* (is_starred or in_user_playlist or max_rating > 2), and Keep in every other
\* case.
C10_StandardDecision ==
    (decide.done /\ ~decide.is_discover_weekly) =>
        decide.out = IF OneStarUnprotected(decide.protection)
                     THEN Delete(<<"1-star with no other user protection">>)
                     ELSE Keep

C10_Witness ==
    /\ decide.done /\ ~decide.is_discover_weekly
    /\ OneStarUnprotected(decide.protection)
    /\ decide.out.should_delete

\* C26: a record the pass left without a Keep or Delete decision although
\* its song was in the library when it was looked up is still pending when
\* the pass is over.
C26_FailedLookupStaysPending ==
    clean.pc = "done" =>
        \A e \in clean.evaluated :
            (e.decision = "NOT_FOUND" /\ e.in_library) =>
                e.track \in Pending(history, e.source)

----------------------------------------------------------------------------
(* Claims about the scheduler *)

\* the loops that are inside _sync_playlist for the target
Syncing(id) == {l \in Loops : InSync(l) /\ loop[l].entry.id = id}

\* C4: no two sync runs of one target are in progress at the same time, and
\* a sync run of a target that has been synced before is in progress only
\* when that earlier run has updated the target's last_synced.
C4_OneSyncPerTarget ==
    \A id \in TargetIds :
        /\ Cardinality(Syncing(id)) <= 1
        /\ (Syncing(id) # {} /\ id \in syncedOnce)
              => StoredTarget(file, id).last_synced # NoTime

\* C5: every target whose sync run has ended has its persisted last_synced
\* set, whatever owner it is stored under.
C5_SyncedTargetsAreMarked ==
    \A id \in syncedOnce : StoredTarget(file, id).last_synced # NoTime

\* C29: at most one scheduler loop thread is alive at any time, however
\* many callers run start_scheduler at once.
C29_OneLoopThread ==
    Cardinality({l \in Loops : IsAlive(l)}) <= 1

----------------------------------------------------------------------------
(* apis/navidrome_api: matching a track against the library *)

IsSpace(c) == c = " "

\* str.strip(), str.rstrip('.')
RECURSIVE LStrip(_)
LStrip(t) == IF t # <<>> /\ IsSpace(Head(t)) THEN LStrip(Tail(t)) ELSE t

RECURSIVE RStrip(_)
RStrip(t) ==
    IF t # <<>> /\ IsSpace(t[Len(t)]) THEN RStrip(SubSeq(t, 1, Len(t) - 1)) ELSE t

Strip(t) == LStrip(RStrip(t))

RECURSIVE RStripDots(_)
RStripDots(t) ==
    IF t # <<>> /\ t[Len(t)] = "." THEN RStripDots(SubSeq(t, 1, Len(t) - 1)) ELSE t

StartsWith(t, i, w) ==
    /\ i + Len(w) - 1 <= Len(t)
    /\ \A k \in DOMAIN w : t[i + k - 1] = w[k]

\* feat\.?|ft\.?|featuring|with
FeatWords ==
    {<<"f","e","a","t">>, <<"f","e","a","t",".">>, <<"f","t">>, <<"f","t",".">>,
     <<"f","e","a","t","u","r","i","n","g">>, <<"w","i","t","h">>}

\* re.sub(r'\s*(feat\.?|ft\.?|featuring|with)\s+.*', '', t): from the first
\* place where one of the words is followed by white space, the rest goes,
\* with the white space in front of it
StripFeat(t) ==
    LET at == {i \in DOMAIN t :
                 \E w \in FeatWords :
                    /\ StartsWith(t, i, w)
                    /\ i + Len(w) <= Len(t)
                    /\ IsSpace(t[i + Len(w)])}
    IN IF at = {} THEN t ELSE RStrip(SubSeq(t, 1, Min(at) - 1))

\* re.sub(r'\s*[\(\[].*?[\)\]]', '', t): every bracketed part goes, from its
\* opening bracket to the next closing one, with the white space in front
RECURSIVE StripBrackets(_)
StripBrackets(t) ==
    LET open == {i \in DOMAIN t :
                   /\ t[i] \in {"(", "["}
                   /\ \E j \in DOMAIN t : j > i /\ t[j] \in {")", "]"}}
    IN IF open = {} THEN t
       ELSE LET i == Min(open)
                j == Min({k \in DOMAIN t : k > i /\ t[k] \in {")", "]"}})
            IN RStrip(SubSeq(t, 1, i - 1)) \o StripBrackets(SubSeq(t, j + 1, Len(t)))

\* re.sub(r'\s+', ' ', t)
RECURSIVE CollapseSpaces(_)
CollapseSpaces(t) ==
    IF t = <<>> THEN <<>>
    ELSE IF IsSpace(Head(t)) THEN <<" ">> \o CollapseSpaces(LStrip(t))
    ELSE <<Head(t)>> \o CollapseSpaces(Tail(t))

NormalizeLowerOnly(text) == Lower(text)

\* _normalize_for_match
NormalizeForMatch(text) ==
    Strip(CollapseSpaces(StripBrackets(StripFeat(RStripDots(Strip(Lower(text)))))))

\* a in b, for strings
Contains(a, b) ==
    \E i \in 0..(Len(b) - Len(a)) : SubSeq(b, i + 1, i + Len(a)) = a

\* set(re.split(r'[,&\s]+', t)): the runs between separators, and the empty
\* string when t is empty or begins or ends with a separator
IsSep(c) == c \in {",", "&", " "}

Words(t) ==
    {SubSeq(t, i, j) : <<i, j>> \in
        {x \in (DOMAIN t) \X (DOMAIN t) :
            /\ x[1] <= x[2]
            /\ \A k \in x[1]..x[2] : ~IsSep(t[k])
            /\ (x[1] = 1 \/ IsSep(t[x[1] - 1]))
            /\ (x[2] = Len(t) \/ IsSep(t[x[2] + 1]))}}
    \cup (IF t = <<>> \/ IsSep(t[1]) \/ IsSep(t[Len(t)]) THEN {<<>>} ELSE {})

\* the title part and the artist part of _score
TitleScore(s_title, norm_title) ==
    IF s_title = norm_title THEN 100
    ELSE IF Contains(norm_title, s_title) \/ Contains(s_title, norm_title) THEN 60
    ELSE 0

ArtistScore(s_artist, norm_artist) ==
    IF s_artist = norm_artist THEN 100
    ELSE IF Contains(norm_artist, s_artist) \/ Contains(s_artist, norm_artist) THEN 60
    ELSE 30 * Cardinality(Words(norm_artist) \cap Words(s_artist))

ScoreNoAlbumPenalty(song, norm_artist, norm_title, norm_album) ==
    TitleScore(NormalizeForMatch(Get(song, "title", <<>>)), norm_title)
    + ArtistScore(NormalizeForMatch(Get(song, "artist", <<>>)), norm_artist)
    + (IF norm_album = <<>> THEN 0
       ELSE LET s_album == NormalizeForMatch(Get(song, "album", <<>>))
            IN IF s_album = norm_album THEN 50
               ELSE IF Contains(norm_album, s_album) \/ Contains(s_album, norm_album) THEN 25
               ELSE 0)

\* _score; norm_album is the empty string when no album was given
Score(song, norm_artist, norm_title, norm_album) ==
    TitleScore(NormalizeForMatch(Get(song, "title", <<>>)), norm_title)
    + ArtistScore(NormalizeForMatch(Get(song, "artist", <<>>)), norm_artist)
    + (IF norm_album = <<>> THEN 0
       ELSE LET s_album == NormalizeForMatch(Get(song, "album", <<>>))
            IN IF s_album = norm_album THEN 50
               ELSE IF Contains(norm_album, s_album) \/ Contains(s_album, norm_album) THEN 25
               ELSE 0 - 200)

\* None, where a song is expected
NoMatch == [id |-> None]

\* a choice that would take the last of the candidates with the highest score
BestIndexLast(all_candidates, norm_artist, norm_title, norm_album) ==
    LET top == {i \in DOMAIN all_candidates :
                  \A j \in DOMAIN all_candidates :
                     Score(all_candidates[i], norm_artist, norm_title, norm_album)
                        >= Score(all_candidates[j], norm_artist, norm_title, norm_album)}
    IN CHOOSE i \in top : \A j \in top : j <= i

\* scored.sort(key=lambda x: x[1], reverse=True); scored[0]: the first of the
\* candidates with the highest score
BestIndex(all_candidates, norm_artist, norm_title, norm_album) ==
    Min({i \in DOMAIN all_candidates :
           \A j \in DOMAIN all_candidates :
              Score(all_candidates[i], norm_artist, norm_title, norm_album)
                 >= Score(all_candidates[j], norm_artist, norm_title, norm_album)})

SearchSongInNavidromeAbove(artist, title, album, all_candidates) ==
    LET norm_artist == NormalizeForMatch(artist)
        norm_title == NormalizeForMatch(title)
        norm_album == IF album # <<>> THEN NormalizeForMatch(album) ELSE <<>>
    IN IF all_candidates = <<>> THEN NoMatch
       ELSE LET best == BestIndex(all_candidates, norm_artist, norm_title, norm_album)
            IN IF Score(all_candidates[best], norm_artist, norm_title, norm_album) > 60
               THEN all_candidates[best]
               ELSE NoMatch

\* _search_song_in_navidrome, lines 336-338 and 364-407, on the candidates
\* the three searches have collected; album is the empty string for None
SearchSongInNavidrome(artist, title, album, all_candidates) ==
    LET norm_artist == NormalizeForMatch(artist)
        norm_title == NormalizeForMatch(title)
        norm_album == IF album # <<>> THEN NormalizeForMatch(album) ELSE <<>>
    IN IF all_candidates = <<>> THEN NoMatch
       ELSE LET best == BestIndex(all_candidates, norm_artist, norm_title, norm_album)
            IN IF Score(all_candidates[best], norm_artist, norm_title, norm_album) >= 60
               THEN all_candidates[best]
               ELSE NoMatch

\* lines 356-360: the songs of a response whose id has not been seen
RECURSIVE AppendNew(_, _)
AppendNew(all_candidates, songs) ==
    IF songs = <<>> THEN all_candidates
    ELSE AppendNew(IF \E i \in DOMAIN all_candidates :
                         all_candidates[i].id = Head(songs).id
                   THEN all_candidates
                   ELSE Append(all_candidates, Head(songs)),
                   Tail(songs))

MaxResults == 2

\* The library: one track on two albums, and a track of a shorter title by
\* several artists.
Song1 == [id |-> "s1", artist |-> <<"A","b">>, title |-> <<"x"," ","y">>,
          album |-> <<"L","m">>]
Song2 == [id |-> "s2", artist |-> <<"A","b">>, title |-> <<"x"," ","y">>,
          album |-> <<"w">>]
Song3 == [id |-> "s3", artist |-> <<"A","b",","," ","y">>, title |-> <<"x">>]
LibrarySongs == {Song1, Song2, Song3}

\* what search3 may answer: up to MaxResults songs of the library, in any
\* order
SearchResults ==
    {r \in SeqsUpTo(LibrarySongs, MaxResults) :
        \A i, j \in DOMAIN r : i # j => r[i] # r[j]}

\* The arguments: artist and title in several spellings, and tracks the
\* library holds in part or not at all; no album, an album, part of one.
PlainArtist == <<"A","b">>
SpacedArtist == <<" ","A","B"," ">>
JointArtist == <<"w"," ","&"," ","A","b">>
PlainTitle == <<"x"," ","y">>
SpacedTitle == <<"X"," "," ","y"," ">>
BracketTitle == <<"x"," ","y"," ","(","b",")">>
FeatTitle == <<"x"," ","y"," ","f","t","."," ","b">>
ShortTitle == <<"y">>
OtherTitle == <<"m">>
OtherArtist == <<"m">>
QueryArtists == {PlainArtist, SpacedArtist, JointArtist, OtherArtist}
QueryTitles == {PlainTitle, SpacedTitle, BracketTitle, FeatTitle, ShortTitle, OtherTitle}
QueryAlbums == {<<>>, <<"L","M">>, <<"l">>}

NoResolve == [artist |-> <<>>, title |-> <<>>, album |-> <<>>, query |-> 1,
              all_candidates |-> <<>>, failed |-> {},
              done |-> FALSE, raised |-> FALSE, out |-> NoMatch]

ResolveInit ==
    resolve \in {[NoResolve EXCEPT !.artist = a, !.title = t, !.album = al] :
                    a \in QueryArtists, t \in QueryTitles, al \in QueryAlbums}

ResolveIdle == resolve = NoResolve

\* lines 361-362: the exception of a search is printed and the loop goes on
OnSearchErrorRaise(r) ==
    [r EXCEPT !.done = TRUE, !.raised = TRUE, !.failed = @ \cup {r.query}]

OnSearchError(r) ==
    [r EXCEPT !.query = @ + 1, !.failed = @ \cup {r.query}]

\* lines 344-360: one of the three searches answers
SearchReturns ==
    /\ ~resolve.done
    /\ resolve.query <= 3
    /\ \E songs \in SearchResults :
          resolve' = [resolve EXCEPT !.query = @ + 1,
                                     !.all_candidates = AppendNew(@, songs)]
    /\ UNCHANGED <<storeVars, schedVars, cleanVars, migVars, protectVars, evalVars, regVars, batchVars, histVars, restartVars, normVars, scanVars, httpVars>>

\* lines 352-353, 361: requests.get or raise_for_status raises
SearchFails ==
    /\ ~resolve.done
    /\ resolve.query <= 3
    /\ resolve' = OnSearchError(resolve)
    /\ UNCHANGED <<storeVars, schedVars, cleanVars, migVars, protectVars, evalVars, regVars, batchVars, histVars, restartVars, normVars, scanVars, httpVars>>

\* lines 364-407: the candidates are scored and the call returns
ResolveReturn ==
    /\ ~resolve.done
    /\ resolve.query > 3
    /\ resolve' = [resolve EXCEPT !.done = TRUE,
                                  !.out = SearchSongInNavidrome(resolve.artist, resolve.title,
                                                                resolve.album,
                                                                resolve.all_candidates)]
    /\ UNCHANGED <<storeVars, schedVars, cleanVars, migVars, protectVars, evalVars, regVars, batchVars, histVars, restartVars, normVars, scanVars, httpVars>>

----------------------------------------------------------------------------
(* apis/navidrome_api: _normalize_for_match on its own *)

MaxText == 4

\* the characters of the texts: letters in both cases, a period, a space,
\* brackets, and the letters of "ft"
TextChars == {"A", "a", ".", " ", "(", ")", "f", "t"}
Texts == UNION {[1..n -> TextChars] : n \in 0..MaxText}

NoNorm == [text |-> <<>>, pc |-> "idle", out |-> <<>>]
NormIdle == norm = NoNorm
NormInit == norm \in {[NoNorm EXCEPT !.text = t, !.pc = "called"] : t \in Texts}

\* _normalize_for_match(text) returns
Normalize ==
    /\ norm.pc = "called"
    /\ norm' = [norm EXCEPT !.pc = "done", !.out = NormalizeForMatch(norm.text)]
    /\ UNCHANGED <<storeVars, schedVars, cleanVars, migVars, resolveVars, protectVars,
                   evalVars, regVars, batchVars, histVars, restartVars, scanVars, httpVars>>

\* the output is given to _normalize_for_match again
NormalizeAgain ==
    /\ norm.pc = "done"
    /\ norm' = [norm EXCEPT !.pc = "again", !.text = norm.out,
                            !.out = NormalizeForMatch(norm.out)]
    /\ UNCHANGED <<storeVars, schedVars, cleanVars, migVars, resolveVars, protectVars,
                   evalVars, regVars, batchVars, histVars, restartVars, scanVars, httpVars>>

\* a bracketed part from an opening bracket to a later closing one
HasBracketedPart(t) ==
    \E i, j \in DOMAIN t : i < j /\ t[i] \in {"(", "["} /\ t[j] \in {")", "]"}

NormalForm(t) ==
    /\ Lower(t) = t
    /\ (t # <<>> => t[Len(t)] # ".")
    /\ ~HasBracketedPart(t)
    /\ \A i \in DOMAIN t : i < Len(t) => ~(IsSpace(t[i]) /\ IsSpace(t[i + 1]))
    /\ (t # <<>> => ~IsSpace(t[1]) /\ ~IsSpace(t[Len(t)]))

\* C36: the normalizer's output is in normal form (lower case, no period at
\* the end, no bracketed part, single spaces, no space at either end), is
\* empty for the empty text, and is left unchanged by the normalizer.
C36_OutputIsNormal ==
    /\ norm.pc = "done" =>
          /\ NormalForm(norm.out)
          /\ (norm.text = <<>> => norm.out = <<>>)
    /\ norm.pc = "again" => norm.out = norm.text

----------------------------------------------------------------------------
(* apis/navidrome_api: waiting for a library scan *)

\* seconds: the timeout and the pause of _wait_for_scan, those of
\* _wait_for_scan_async, and the timeout of the status request
SyncTimeout == 120
SyncSleep == 3
AsyncTimeout == 60
AsyncSleep == 2
RequestTimeout == 30

WaitKinds == {"sync", "async"}
TimeoutOf(kind) == IF kind = "sync" THEN SyncTimeout ELSE AsyncTimeout
SleepOf(kind) == IF kind = "sync" THEN SyncSleep ELSE AsyncSleep

\* what a getScanStatus request comes to: Navidrome says it is scanning, says
\* it is not, or the request fails or its answer cannot be read
ScanResponses == {"scanning", "idle", "error"}

\* how long a status request takes, in seconds
RequestTimes == {0, 1, RequestTimeout}

\* a status check that would count a failed request as a scan in progress
GetScanStatusErrorIsScanning(response) == response # "idle"

\* _get_scan_status: the 'scanning' flag of the answer, False after an
\* exception
GetScanStatus(response) ==
    IF response = "error" THEN FALSE ELSE response = "scanning"

NoScan == [kind |-> "sync", pc |-> "idle", elapsed |-> 0, last |-> "none", result |-> FALSE]
ScanIdle == scan = NoScan
ScanInit == scan \in {[NoScan EXCEPT !.kind = k, !.pc = "while"] : k \in WaitKinds}

\* while time.time() - start < timeout: if not self._get_scan_status():
\* return True
ScanCheck ==
    /\ scan.pc = "while"
    /\ scan.elapsed < TimeoutOf(scan.kind)
    /\ \E response \in ScanResponses, took \in RequestTimes :
          scan' = [scan EXCEPT !.elapsed = @ + took,
                               !.last = response,
                               !.pc = IF GetScanStatus(response) THEN "sleep" ELSE "returned",
                               !.result = ~GetScanStatus(response)]
    /\ UNCHANGED <<storeVars, schedVars, cleanVars, migVars, resolveVars, protectVars,
                   evalVars, regVars, batchVars, histVars, restartVars, normVars, httpVars>>

\* time.sleep(3), await asyncio.sleep(2)
ScanSleep ==
    /\ scan.pc = "sleep"
    /\ scan' = [scan EXCEPT !.elapsed = @ + SleepOf(scan.kind), !.pc = "while"]
    /\ UNCHANGED <<storeVars, schedVars, cleanVars, migVars, resolveVars, protectVars,
                   evalVars, regVars, batchVars, histVars, restartVars, normVars, httpVars>>

\* the while test fails: return False
ScanTimeout ==
    /\ scan.pc = "while"
    /\ ~(scan.elapsed < TimeoutOf(scan.kind))
    /\ scan' = [scan EXCEPT !.pc = "returned", !.result = FALSE]
    /\ UNCHANGED <<storeVars, schedVars, cleanVars, migVars, resolveVars, protectVars,
                   evalVars, regVars, batchVars, histVars, restartVars, normVars, httpVars>>

\* the caller goes on, whatever the wait returned
ScanProceed ==
    /\ scan.pc = "returned"
    /\ scan' = [scan EXCEPT !.pc = "proceeded"]
    /\ UNCHANGED <<storeVars, schedVars, cleanVars, migVars, resolveVars, protectVars,
                   evalVars, regVars, batchVars, histVars, restartVars, normVars, httpVars>>

ScanStep == ScanCheck \/ ScanSleep \/ ScanTimeout \/ ScanProceed

\* C38: the wait for a scan ends and its caller goes on, whatever the status
\* requests answer; the wait goes on only after a check that said a scan is
\* in progress, succeeds on the first check that says none is (a failed
\* request counts as none), and fails only once the timeout has elapsed.
C38_WaitTerminates ==
    /\ <>(scan.pc = "proceeded")
    /\ [](scan.pc = "sleep" => scan.last = "scanning")
    /\ [](scan.pc \in {"returned", "proceeded"} =>
            IF scan.result
            THEN scan.last \in {"idle", "error"}
            ELSE /\ scan.elapsed >= TimeoutOf(scan.kind)
                 /\ scan.last \in {"scanning", "none"})

\* a wait that failed: every check found a scan in progress until the
\* timeout had elapsed, and the caller went on
C38_Witness ==
    /\ scan.pc = "proceeded"
    /\ ~scan.result
    /\ scan.last = "scanning"
    /\ scan.elapsed >= TimeoutOf(scan.kind)

----------------------------------------------------------------------------
(* utils/http: make_request_with_retries *)

MaxRetries == 3

\* what one attempt comes to: a response of a good status, a
\* ConnectionError, a Timeout, a response of an error status (HTTPError), or
\* another RequestException
AttemptOutcomes == {"ok", "ConnectionError", "Timeout", "HTTPError", "RequestException"}

Retried == {"ConnectionError", "Timeout"}

\* 2 ** n
RECURSIVE Pow2(_)
Pow2(n) == IF n = 0 THEN 1 ELSE 2 * Pow2(n - 1)

\* lines 77, 85: the pause before the next attempt; the defaults
\* retry_delay = 5 and initial_delay = 1
RetryDelay == 5
InitialDelay == 1
Delay(exponential_backoff, attempt) ==
    IF exponential_backoff THEN InitialDelay * Pow2(attempt) ELSE RetryDelay

NoHttp == [max_retries |-> 0, exponential_backoff |-> FALSE, is_async |-> FALSE,
           pc |-> "idle", attempt |-> 0, log |-> <<>>, slept |-> 0, out |-> "pending"]
HttpIdle == http = NoHttp
HttpInit ==
    http \in {[NoHttp EXCEPT !.max_retries = n, !.exponential_backoff = e, !.is_async = y,
                             !.pc = "for"] :
                 n \in 0..MaxRetries, e \in BOOLEAN, y \in BOOLEAN}

\* lines 57-72: the request is made and raise_for_status passes: return response
AttemptReturns ==
    /\ http.pc = "for"
    /\ http.attempt < http.max_retries
    /\ http' = [http EXCEPT !.log = Append(@, "ok"), !.pc = "done", !.out = "response"]
    /\ UNCHANGED <<storeVars, schedVars, cleanVars, migVars, resolveVars, protectVars,
                   evalVars, regVars, batchVars, histVars, restartVars, normVars, scanVars>>

\* lines 74-88: a ConnectionError or a Timeout; a pause and the next attempt,
\* or, on the last attempt, raise
AttemptRetried ==
    /\ http.pc = "for"
    /\ http.attempt < http.max_retries
    /\ \E e \in Retried :
          http' = IF http.attempt < http.max_retries - 1
                  THEN [http EXCEPT !.log = Append(@, e),
                                    !.slept = @ + Delay(http.exponential_backoff, http.attempt),
                                    !.attempt = @ + 1]
                  ELSE [http EXCEPT !.log = Append(@, e), !.pc = "done", !.out = "raised"]
    /\ UNCHANGED <<storeVars, schedVars, cleanVars, migVars, resolveVars, protectVars,
                   evalVars, regVars, batchVars, histVars, restartVars, normVars, scanVars>>

\* lines 90-97: an HTTPError or another RequestException: raise
AttemptRaises ==
    /\ http.pc = "for"
    /\ http.attempt < http.max_retries
    /\ \E e \in AttemptOutcomes \ (Retried \cup {"ok"}) :
          http' = [http EXCEPT !.log = Append(@, e), !.pc = "done", !.out = "raised"]
    /\ UNCHANGED <<storeVars, schedVars, cleanVars, migVars, resolveVars, protectVars,
                   evalVars, regVars, batchVars, histVars, restartVars, normVars, scanVars>>

\* line 99: the for loop is over without a return or a raise: return None
LoopEndsReturnNone ==
    /\ http.pc = "for"
    /\ ~(http.attempt < http.max_retries)
    /\ http' = [http EXCEPT !.pc = "done", !.out = "None"]
    /\ UNCHANGED <<storeVars, schedVars, cleanVars, migVars, resolveVars, protectVars,
                   evalVars, regVars, batchVars, histVars, restartVars, normVars, scanVars>>

\* every attempt that was allowed has been made and has failed
AllRetriesFailed ==
    /\ http.max_retries > 0
    /\ Len(http.log) = http.max_retries
    /\ \A i \in DOMAIN http.log : http.log[i] \in Retried

\* C39: a call makes at most max_retries attempts, makes another attempt only
\* after a ConnectionError or a Timeout, returns the response only of an
\* attempt that succeeded, and returns None when all retries failed.
C39_NoneWhenRetriesFail ==
    http.pc = "done" =>
        /\ Len(http.log) <= http.max_retries
        /\ \A i \in DOMAIN http.log : i < Len(http.log) => http.log[i] \in Retried
        /\ (http.out = "response") <=>
              (http.log # <<>> /\ http.log[Len(http.log)] = "ok")
        /\ AllRetriesFailed => http.out = "None"

----------------------------------------------------------------------------
(* Claims about the matching *)

\* the normalized arguments of the call, and a candidate's score against them
QArtist == NormalizeForMatch(resolve.artist)
QTitle == NormalizeForMatch(resolve.title)
QAlbum == NormalizeForMatch(resolve.album)
CandScore(song) == Score(song, QArtist, QTitle, QAlbum)
Candidates == {resolve.all_candidates[i] : i \in DOMAIN resolve.all_candidates}
BestScoreIs(n) ==
    /\ \E c \in Candidates : CandScore(c) = n
    /\ \A c \in Candidates : CandScore(c) <= n

\* C16: the call returns a candidate of the highest score when that score is
\* at least 60, and returns no match when the highest score is below 60 or
\* there is no candidate.
C16_ThresholdDecides ==
    resolve.done =>
        IF \E c \in Candidates : CandScore(c) >= 60
        THEN /\ resolve.out \in Candidates
             /\ BestScoreIs(CandScore(resolve.out))
        ELSE resolve.out = NoMatch

\* a candidate scoring exactly 60 was returned
C16_Witness ==
    /\ resolve.done
    /\ resolve.out \in Candidates
    /\ CandScore(resolve.out) = 60

\* the candidate has the artist and title asked for, and an album that neither
\* is the album asked for nor contains it nor is contained in it
AlbumRelated(song) ==
    LET s_album == NormalizeForMatch(Get(song, "album", <<>>))
    IN s_album = QAlbum \/ Contains(QAlbum, s_album) \/ Contains(s_album, QAlbum)

ExactArtistTitle(song) ==
    /\ NormalizeForMatch(Get(song, "artist", <<>>)) = QArtist
    /\ NormalizeForMatch(Get(song, "title", <<>>)) = QTitle

\* C17: with an album hint, a candidate of the exact normalized artist and
\* title whose normalized album is unrelated to the hint scores at most 0 and
\* is not returned.
C17_AlbumMismatchRejected ==
    (resolve.done /\ resolve.album # <<>>) =>
        \A c \in Candidates :
            (ExactArtistTitle(c) /\ ~AlbumRelated(c))
               => CandScore(c) <= 0 /\ resolve.out # c

\* such a candidate was among the answers of a call that has returned
C17_Witness ==
    /\ resolve.done
    /\ resolve.album # <<>>
    /\ \E c \in Candidates : ExactArtistTitle(c) /\ ~AlbumRelated(c)

\* the spellings of one artist and of one title
ArtistSpellings == {PlainArtist, SpacedArtist}
TitleSpellings == {PlainTitle, SpacedTitle}

\* C18, as stated: when the only candidate has the normalized artist and
\* title of the arguments, the call returns it.
C18_SoleExactCandidate ==
    (/\ resolve.done
     /\ Len(resolve.all_candidates) = 1
     /\ ExactArtistTitle(resolve.all_candidates[1]))
    => resolve.out = resolve.all_candidates[1]

\* C18, amended: ... provided no album hint is given or the candidate's album
\* is the hint, contains it or is contained in it; spellings that differ in
\* letter case and white space normalize to the same string.
C18_SoleExactCandidateAlbum ==
    /\ \A a \in ArtistSpellings : NormalizeForMatch(a) = NormalizeForMatch(PlainArtist)
    /\ \A t \in TitleSpellings : NormalizeForMatch(t) = NormalizeForMatch(PlainTitle)
    /\ (/\ resolve.done
        /\ Len(resolve.all_candidates) = 1
        /\ ExactArtistTitle(resolve.all_candidates[1])
        /\ (resolve.album = <<>> \/ AlbumRelated(resolve.all_candidates[1])))
       => resolve.out = resolve.all_candidates[1]

\* the sole candidate was returned for arguments in another spelling
C18_Witness ==
    /\ resolve.done
    /\ resolve.artist = SpacedArtist
    /\ resolve.title = SpacedTitle
    /\ resolve.album # <<>>
    /\ resolve.all_candidates = <<Song1>>
    /\ resolve.out = Song1

\* C19: a search that fails adds no candidate and raises nothing; the call
\* returns what the candidates of the other searches give, and no match when
\* all three searches fail.
C19_FailedSearchesOmitted ==
    [][/\ resolve'.failed # resolve.failed
          => /\ resolve'.all_candidates = resolve.all_candidates
             /\ ~resolve'.raised
             /\ ~resolve'.done
       /\ resolve'.done
          => /\ ~resolve'.raised
             /\ \/ resolve'.out = NoMatch
                \/ \E i \in DOMAIN resolve'.all_candidates :
                      resolve'.out = resolve'.all_candidates[i]
             /\ resolve'.failed = {1, 2, 3}
                   => resolve'.all_candidates = <<>> /\ resolve'.out = NoMatch]_vars

\* a call returned a song although one of its searches had failed
C19_Witness ==
    /\ resolve.done
    /\ resolve.failed # {}
    /\ resolve.out # NoMatch

\* the score of the i-th merged candidate for the call's arguments
CandidateScore(i) ==
    Score(resolve.all_candidates[i], QArtist, QTitle, QAlbum)

\* C37: the merged candidates hold each entry id once, and the song returned
\* is the first of them, in the order of their first appearance, among those
\* of the highest score.
C37_FirstOfTheBest ==
    /\ \A i, j \in DOMAIN resolve.all_candidates :
          i # j => resolve.all_candidates[i].id # resolve.all_candidates[j].id
    /\ (resolve.done /\ resolve.out # NoMatch) =>
          \E i \in DOMAIN resolve.all_candidates :
             /\ resolve.out = resolve.all_candidates[i]
             /\ \A j \in DOMAIN resolve.all_candidates : CandidateScore(j) <= CandidateScore(i)
             /\ \A j \in 1..(i - 1) : CandidateScore(j) < CandidateScore(i)

\* two candidates tie at the highest score and the earlier one is returned
C37_Witness ==
    /\ resolve.done
    /\ Len(resolve.all_candidates) >= 2
    /\ resolve.out = resolve.all_candidates[1]
    /\ \E j \in 2..Len(resolve.all_candidates) : CandidateScore(j) = CandidateScore(1)
    /\ \A j \in DOMAIN resolve.all_candidates : CandidateScore(j) <= CandidateScore(1)

----------------------------------------------------------------------------
(* apis/navidrome_api: the protection verdict on either path *)

MaxMemberships == 2

\* lines 170-217: the Subsonic API fallback, which asks for the rating and
\* the star of the current user and of the admin user (here the first two
\* annotation rows) and does not ask for playlists
CheckSongProtectionApi(song) ==
    LET seen == SubSeq(song.rows, 1, IF Len(song.rows) < 2 THEN Len(song.rows) ELSE 2)
        r == AnnotationRows(NoProtection, seen)
    IN [r EXCEPT !.protected = r.max_rating > Stars(2) \/ r.is_starred \/ r.in_user_playlist]

\* _check_song_protection: the database when it is configured and can be
\* read, the API otherwise
CheckSongProtectionAny(song, db_available) ==
    IF db_available THEN CheckSongProtection(song) ELSE CheckSongProtectionApi(song)

\* update_api_playlists, source_map: the playlists this tool writes its
\* recommendations to
ListenBrainzWeekly ==
    <<"L","i","s","t","e","n","B","r","a","i","n","z"," ","W","e","e","k","l","y">>
LastFmWeekly == <<"L","a","s","t",".","f","m"," ","W","e","e","k","l","y">>
SourceMapPlaylists == {ListenBrainzWeekly, LastFmWeekly, LlmWeekly}

\* playlists Navidrome may hold: the tool's own, the same names in another
\* letter case, and a user's
LlmWeeklyLower == <<"l","l","m"," ","w","e","e","k","l","y">>
LastFmWeeklyMixed == <<"L","A","s","t",".","f","m"," ","w","e","e","k","l","y">>
PlaylistNames ==
    {ListenBrainzWeekly, LastFmWeekly, LlmWeekly, LlmWeeklyLower, LastFmWeeklyMixed, UserMix}

ProtectSongs ==
    [present : {TRUE},
     rows : SeqsUpTo([rating : DbRatings, starred : BOOLEAN], MaxRows),
     playlists : SeqsUpTo(PlaylistNames, MaxMemberships)]

NoProtect == [song |-> PlainSong, db_available |-> TRUE, done |-> FALSE,
              out |-> NoProtection]

ProtectIdle == protect = NoProtect

ProtectInit ==
    protect \in {[NoProtect EXCEPT !.song = sg, !.db_available = db] :
                    sg \in ProtectSongs, db \in BOOLEAN}

\* protection = self._check_song_protection(song_id)
Protect ==
    /\ ~protect.done
    /\ protect' = [protect EXCEPT !.done = TRUE,
                                  !.out = CheckSongProtectionAny(protect.song,
                                                                 protect.db_available)]
    /\ UNCHANGED <<storeVars, schedVars, cleanVars, migVars, resolveVars, evalVars, regVars, batchVars, histVars, restartVars, normVars, scanVars, httpVars>>

\* a playlist this tool manages, in whatever letter case
IsSystemPlaylist(name) == \E sp \in SourceMapPlaylists : Lower(name) = Lower(sp)

InNonSystemPlaylist(song) ==
    \E i \in DOMAIN song.playlists : ~IsSystemPlaylist(song.playlists[i])

----------------------------------------------------------------------------
(* apis/navidrome_api: the verdict of the database path over the annotation rows *)

\* db_rating on Navidrome's 0-10 scale: unrated, half a star, one star, one
\* and a half, two and a half, five stars
BulkRatings == {0, 1, 2, 3, 5, MaxDbRating}

BulkSongs ==
    [present : {TRUE},
     rows : SeqsUpTo([rating : BulkRatings, starred : BOOLEAN], MaxRows),
     playlists : {<<>>, <<UserMix>>}]

\* _check_song_protection(song_id) with the database configured and readable
BulkInit == protect \in {[NoProtect EXCEPT !.song = sg] : sg \in BulkSongs}

\* the greatest of a set of ratings, 0 for none
MaxOf(S) == IF S = {} THEN 0 ELSE CHOOSE x \in S : \A y \in S : y <= x

\* C35: over the annotation rows of all users, the verdict of the database
\* path has has_interaction iff some row is rated or starred, has_one_star iff
\* some row is rated above 0 and at most one star, is_starred iff some row is
\* starred, and max_rating five stars when some row is starred and the
\* greatest halved rating otherwise.
C35_BulkVerdict ==
    (protect.done /\ protect.db_available) =>
        LET rows == protect.song.rows
            out == protect.out
            someStar == \E i \in DOMAIN rows : rows[i].starred
        IN /\ out.has_interaction <=>
                 \E i \in DOMAIN rows : rows[i].rating > 0 \/ rows[i].starred
           /\ out.has_one_star <=>
                 \E i \in DOMAIN rows : 0 < rows[i].rating /\ rows[i].rating <= Stars(1)
           /\ out.is_starred <=> someStar
           /\ out.max_rating = IF someStar THEN Stars(5)
                               ELSE MaxOf({rows[i].rating : i \in DOMAIN rows})

\* a verdict over a row rated three stars or more followed by a row rated
\* half a star, neither starred
C35_Witness ==
    /\ protect.done
    /\ protect.db_available
    /\ Len(protect.song.rows) >= 2
    /\ protect.song.rows[1].rating > Stars(2)
    /\ protect.song.rows[2].rating = 1
    /\ \A i \in DOMAIN protect.song.rows : ~protect.song.rows[i].starred
    /\ protect.out.has_one_star
    /\ protect.out.max_rating = protect.song.rows[1].rating

----------------------------------------------------------------------------
(* apis/navidrome_api: _check_song_protection step by step *)

\* the Navidrome users whose annotations a song may carry: self.user_nd,
\* the admin account, and somebody else
CurrentUser == "me"
AdminAccount == "admin"
OtherUser == "other"
NavidromeUsers == {CurrentUser, AdminAccount, OtherUser}

\* db_rating of a user's annotation: unrated, 1 star, 3 stars
EvalRatings == {0, 2, 6}

\* self.admin_user: not configured, the current user, a separate account
AdminSettings == {"", CurrentUser, AdminAccount}

\* self.navidrome_db_path and what happens on the database: no path, no
\* file at the path, both queries answer, the connection or the annotation
\* query raises, the playlist query raises
DbStates == {"unset", "missing", "ok", "fails_annotation", "fails_playlist"}

\* the annotation rows of a song, one per user who rated or starred it
RECURSIVE RowsOf(_, _)
RowsOf(signals, users) ==
    IF users = {} THEN <<>>
    ELSE LET u == CHOOSE x \in users : TRUE
         IN (IF signals[u].rating > 0 \/ signals[u].starred
             THEN <<signals[u]>> ELSE <<>>) \o RowsOf(signals, users \ {u})

\* _get_song_details as seen by the caller: the song dict with the asking
\* user's userRating in whole stars and starred, None when the request fails
NoDetails == [ok |-> FALSE]
GetSongDetails(signals, user, failing) ==
    IF user \in failing THEN NoDetails
    ELSE [ok |-> TRUE, userRating |-> signals[user].rating \div 2,
          starred |-> signals[user].starred]

\* lines 173-192 and 198-217: the signals of one getSong answer
ApiDetails(result, details) ==
    IF ~details.ok THEN result
    ELSE LET user_rating == Stars(details.userRating)
             r1 == IF user_rating > 0 \/ details.starred
                   THEN [result EXCEPT !.has_interaction = TRUE] ELSE result
             r2 == IF 0 < user_rating /\ user_rating <= Stars(1)
                   THEN [r1 EXCEPT !.has_one_star = TRUE] ELSE r1
             r3 == IF details.starred
                   THEN [r2 EXCEPT !.is_starred = TRUE, !.max_rating = Max(@, Stars(5))]
                   ELSE r2
         IN [r3 EXCEPT !.max_rating = Max(@, user_rating)]

\* line 165, line 220
WithProtected(r) ==
    [r EXCEPT !.protected = r.max_rating > Stars(2) \/ r.is_starred \/ r.in_user_playlist]

NoEval ==
    [signals |-> [u \in NavidromeUsers |-> [rating |-> 0, starred |-> FALSE]],
     playlists |-> <<>>, db |-> "unset", admin_user |-> "", failing |-> {},
     pc |-> "done", result |-> NoProtection, asked |-> {}, warned |-> FALSE,
     path |-> "none"]

EvalIdle == ev = NoEval

EvalInit ==
    ev \in {[NoEval EXCEPT !.signals = sg, !.playlists = pl, !.db = db,
                           !.admin_user = ad, !.failing = fl, !.pc = "start"] :
               sg \in [NavidromeUsers -> [rating : EvalRatings, starred : BOOLEAN]],
               pl \in SeqsUpTo({LlmWeekly, UserMix}, MaxPlaylists),
               db \in DbStates, ad \in AdminSettings,
               fl \in SUBSET {CurrentUser, AdminAccount}}

\* lines 114-166: the database is configured and there, and both queries answer
EvalDatabase ==
    /\ ev.pc = "start"
    /\ ev.db = "ok"
    /\ ev' = [ev EXCEPT !.pc = "done", !.path = "db",
                        !.result = WithProtected(
                            PlaylistRows(AnnotationRows(ev.result,
                                                        RowsOf(ev.signals, NavidromeUsers)),
                                         ev.playlists))]
    /\ UNCHANGED <<storeVars, schedVars, cleanVars, migVars, resolveVars, protectVars, regVars, batchVars, histVars, restartVars, normVars, scanVars, httpVars>>

\* lines 114-168: a query raises; what the loop over the annotation rows
\* wrote into result stays there, and the except clause prints the warning
EvalDatabaseFails ==
    /\ ev.pc = "start"
    /\ ev.db \in {"fails_annotation", "fails_playlist"}
    /\ ev' = [ev EXCEPT !.pc = "fallback", !.warned = TRUE,
                        !.result = IF ev.db = "fails_playlist"
                                   THEN AnnotationRows(ev.result,
                                                       RowsOf(ev.signals, NavidromeUsers))
                                   ELSE ev.result]
    /\ UNCHANGED <<storeVars, schedVars, cleanVars, migVars, resolveVars, protectVars, regVars, batchVars, histVars, restartVars, normVars, scanVars, httpVars>>

\* line 114: no database path, or no file there
EvalNoDatabase ==
    /\ ev.pc = "start"
    /\ ev.db \in {"unset", "missing"}
    /\ ev' = [ev EXCEPT !.pc = "fallback"]
    /\ UNCHANGED <<storeVars, schedVars, cleanVars, migVars, resolveVars, protectVars, regVars, batchVars, histVars, restartVars, normVars, scanVars, httpVars>>

\* lines 171-221: the Subsonic API fallback
EvalFallback ==
    /\ ev.pc = "fallback"
    /\ LET r1 == ApiDetails(ev.result,
                            GetSongDetails(ev.signals, CurrentUser, ev.failing))
           admin == ev.admin_user # "" /\ ev.admin_user # CurrentUser
           r2 == IF admin
                 THEN ApiDetails(r1, GetSongDetails(ev.signals, ev.admin_user, ev.failing))
                 ELSE r1
       IN ev' = [ev EXCEPT !.pc = "done", !.path = "api",
                           !.asked = {CurrentUser} \cup (IF admin THEN {ev.admin_user} ELSE {}),
                           !.result = WithProtected(r2)]
    /\ UNCHANGED <<storeVars, schedVars, cleanVars, migVars, resolveVars, protectVars, regVars, batchVars, histVars, restartVars, normVars, scanVars, httpVars>>

\* the users whose signals the fallback is to see
FallbackUsers ==
    {CurrentUser} \cup
    (IF ev.admin_user \notin {"", CurrentUser} THEN {ev.admin_user} ELSE {})

\* C21: a verdict of the fallback path carries only signals of the current
\* user and of the admin account, also after a database query that failed;
\* a verdict of the database path involves no request to the API.
C21_FallbackSeesTwoUsers ==
    ev.pc = "done" =>
        /\ ev.path = "api" =>
              /\ ev.result.has_interaction =>
                    \E u \in FallbackUsers :
                        ev.signals[u].rating > 0 \/ ev.signals[u].starred
              /\ ev.result.has_one_star =>
                    \E u \in FallbackUsers : ev.signals[u].rating = Stars(1)
              /\ ev.result.is_starred => \E u \in FallbackUsers : ev.signals[u].starred
              /\ ev.result.max_rating > 0 =>
                    \E u \in FallbackUsers :
                        \/ ev.signals[u].starred
                        \/ ev.signals[u].rating >= ev.result.max_rating
        /\ ev.db = "ok" => ev.path = "db" /\ ev.asked = {}

\* C22: a verdict of the fallback path is preceded by a warning.
C22_FallbackWarns ==
    (ev.pc = "done" /\ ev.path = "api") => ev.warned

----------------------------------------------------------------------------
(* The scheduler's selection of due targets *)

\* Targets as the store may hold them: enabled, disabled or without the key;
\* never synced, with a last_synced that does not parse, or synced at hour 0;
\* polled every hour or every second hour.
DueEntries ==
    {[TargetA EXCEPT !.enabled = en, !.last_synced = ls, !.poll_interval_hours = h] :
        en \in BOOLEAN, ls \in {NoTime, BadTime, Iso(0)}, h \in {1, 2}}
    \cup {[k \in DOMAIN TargetA \ {"enabled"} |->
             [TargetA EXCEPT !.last_synced = ls][k]] : ls \in {NoTime, Iso(0)}}

\* a data directory in which user a monitors one such target
DueInit ==
    /\ \E e \in DueEntries :
          file = [f \in StoreFiles |->
                    IF f = UserFile(UserA)
                    THEN Json(SetKey(DefaultUserData, "monitored_playlists", <<e>>))
                    ELSE NoFile]
    /\ serial = file
    /\ preCrash = file
    /\ postCrash = file
    /\ StoreThreadsInit
    /\ SchedVarsInit

\* what the claim calls due, for an entry as the pass listed it
DueAsClaimed(entry, pass_now) ==
    LET enabled == IF "enabled" \in DOMAIN entry THEN entry.enabled ELSE TRUE
    IN /\ enabled
       /\ \/ entry.last_synced \in {NoTime, BadTime}
          \/ pass_now - entry.last_synced[2] >= entry.poll_interval_hours

\* C14: in a polling pass, the entry the loop is at is handed to
\* _sync_playlist if and only if it is enabled and its last_synced is absent
\* or unparseable or lies at least poll_interval_hours before the pass's now;
\* otherwise the loop passes it over, so no sync begins for a disabled entry.
C14_SelectedIffDue ==
    [][\A l \in Loops :
          /\ (/\ loop[l].pc = "iter"
              /\ loop[l].idx <= Len(loop[l].playlists)
              /\ loop'[l] # loop[l])
             => LET entry == loop[l].playlists[loop[l].idx]
                IN IF DueAsClaimed(entry, loop[l].now)
                   THEN loop'[l].pc = "extract" /\ loop'[l].entry = entry
                   ELSE loop'[l].pc = "iter" /\ loop'[l].idx = loop[l].idx + 1
          /\ (loop'[l].pc = "extract" /\ loop[l].pc # "extract")
             => /\ loop[l].pc = "iter"
                /\ DueAsClaimed(loop'[l].entry, loop[l].now)]_vars

\* a sync has begun for a target exactly poll_interval_hours after its last
\* sync
C14_Witness ==
    \E l \in Loops :
        /\ loop[l].pc = "extract"
        /\ loop[l].entry.last_synced[1] = "iso"
        /\ loop[l].now - loop[l].entry.last_synced[2] = loop[l].entry.poll_interval_hours

----------------------------------------------------------------------------
(* Stopping the scheduler *)

\* start_scheduler called while no stop has been requested
StartBeforeStop(c) ==
    /\ ~stopCalled
    /\ StartCheck(c)

\* stop_scheduler called after start_scheduler has returned, i.e. once the
\* loop thread has been started
StopAfterStart(c) ==
    /\ schedThread # 0
    /\ loop[schedThread].pc \notin {"unborn", "created"}
    /\ StopScheduler(c)

\* a step of a loop thread
LoopStep(l) ==
    \/ LoopBegin(l) \/ LoopList(l) \/ LoopExit(l) \/ LoopSkip(l) \/ SyncBegin(l)
    \/ SyncExtract(l) \/ SyncDownload(l) \/ SyncMark(l) \/ LoopSleep(l) \/ LoopWake(l)

LoopEnded(l) == loop[l].pc \in {"unborn", "exited"}

\* C15: once stop_scheduler has been called on a started scheduler, the loop
\* thread eventually exits, however the call interleaves with the thread's
\* start-up, its waits and its syncs.
C15_StopEndsLoop ==
    stopCalled ~> \A l \in Loops : LoopEnded(l)

\* a loop thread hands a target to _sync_playlist in this step
SyncStarts == \E l \in Loops : loop[l].pc = "iter" /\ loop'[l].pc = "extract"

\* C31: once stop_scheduler has been called and the flag is cleared, no loop
\* thread begins the sync of a further target; the sync in flight may finish.
C31_NoSyncAfterStop == [][(stopCalled /\ ~running) => ~SyncStarts]_vars

----------------------------------------------------------------------------
(* DataStore: a target unregistered or updated while it is synced *)

\* a second target of user a
TargetA3 == [TargetA EXCEPT !.id = "pl3", !.url = "url3", !.name = "Jazz"]

\* the updates _sync_playlist builds (lines 162-185): the Navidrome playlist
\* id, the name Navidrome has, or both; and those of a settings change
SyncUpdates ==
    {[name |-> "Mix2"], [navidrome_playlist_id |-> "nd1"],
     [navidrome_playlist_id |-> "nd1", name |-> "Mix2"]}
SettingsUpdates == {[poll_interval_hours |-> 2, enabled |-> FALSE]}

\* the end of a sync of target pl1 (update_monitored_playlist, mark_synced),
\* the owner unregistering it, and an update naming an id nobody has
UnregisterCalls ==
    {[op |-> "update_monitored_playlist", user |-> UserA, playlist_id |-> id, updates |-> u] :
        id \in {"pl1", "pl9"}, u \in SyncUpdates \cup SettingsUpdates}
    \cup {[op |-> "mark_playlist_synced", user |-> UserA, playlist_id |-> "pl1",
           track_count |-> c, at |-> 1] : c \in {NoCount, <<3>>}}
    \cup {[op |-> "remove_monitored_playlist", user |-> UserA, playlist_id |-> "pl1"]}

\* DataStore() on a data directory where user a has two targets
UnregisterInit ==
    /\ file = [f \in StoreFiles |->
                 IF f = UserFile(UserA)
                 THEN Json(SetKey(DefaultUserData, "monitored_playlists", <<TargetA, TargetA3>>))
                 ELSE NoFile]
    /\ serial = file
    /\ preCrash = file
    /\ postCrash = file
    /\ StoreThreadsInit

\* user a's monitored list as stored, or as the save in progress stores it
OwnerTargets == LoadUserData(postCrash[UserFile(UserA)]).monitored_playlists

TargetIdsOf(targets) == {targets[i].id : i \in DOMAIN targets}

\* C33: once target pl1 is unregistered, no completion of its sync brings it
\* back, and the owner's list stays as the removal left it.
C33_UnregisteredStaysAbsent ==
    [][("pl1" \notin TargetIdsOf(OwnerTargets))
          => (OwnerTargets' = OwnerTargets)]_vars

\* mark_playlist_synced is saving for pl1 after pl1 was unregistered
C33_Witness ==
    /\ "pl1" \notin TargetIdsOf(OwnerTargets)
    /\ OwnerTargets = <<TargetA3>>
    /\ \E t \in Threads : pc[t] = "writing" /\ call[t].op = "mark_playlist_synced"

\* user a's data as stored, or as the save in progress stores it
OwnerData == LoadUserData(postCrash[UserFile(UserA)])

UpdatableKeys == {"poll_interval_hours", "enabled", "name"}

\* what update_monitored_playlist(playlist_id, updates) on data must return
\* and store
UpdateFrame(data, playlist_id, updates) ==
    LET r == UpdateMonitoredPlaylist(data, playlist_id, updates)
        before == data.monitored_playlists
        after == r.data.monitored_playlists
        hits == {i \in DOMAIN before : before[i].id = playlist_id}
        applied == DOMAIN updates \cap UpdatableKeys
    IN /\ ~r.raised
       /\ \A k \in DOMAIN data \ {"monitored_playlists"} :
             k \in DOMAIN r.data /\ r.data[k] = data[k]
       /\ DOMAIN r.data = DOMAIN data
       /\ Len(after) = Len(before)
       /\ IF hits = {}
          THEN /\ r.ret = None
               /\ ~r.save
               /\ after = before
          ELSE \E i \in hits :
                  /\ r.save
                  /\ r.ret = after[i]
                  /\ \A j \in DOMAIN before \ {i} : after[j] = before[j]
                  /\ DOMAIN after[i] = DOMAIN before[i] \cup applied
                  /\ \A k \in applied : after[i][k] = updates[k]
                  /\ \A k \in DOMAIN before[i] \ applied : after[i][k] = before[i][k]

----------------------------------------------------------------------------
(* A failure inside a polling pass *)

\* _sync_playlist, line 193, outside every try of _sync_playlist: mark_synced
\* raises (the user file cannot be opened for writing, data_store.py:102).
\* The exception leaves _sync_playlist and the for loop, is caught at line
\* 243, and the loop goes on to its wait.
SyncMarkRaises(l) ==
    /\ loop[l].pc = "mark"
    /\ loop' = [loop EXCEPT ![l] = [IdleLoop EXCEPT !.pc = "sleep"]]
    /\ UNCHANGED <<file, now, running, schedThread, ctl, syncedOnce>>
    /\ UNCHANGED <<stopCalled, storeThreadVars, cleanVars, migVars, resolveVars, protectVars,
                   evalVars, regVars, batchVars, histVars, restartVars, normVars, scanVars, httpVars>>

\* the due targets of loop l's pass that come after the one it is at
DueTargetsLeft(l) ==
    {j \in DOMAIN loop[l].playlists :
        j > loop[l].idx /\ IsDue(loop[l].playlists[j], loop[l].now)}

\* C32: a polling pass ends only when no due target is left unvisited,
\* whatever failed while an earlier target was handled.
C32_PassVisitsEveryDueTarget ==
    [][\A l \in Loops :
          (loop[l].pc \in {"iter", "extract", "download", "mark"} /\ loop'[l].pc = "sleep")
              => DueTargetsLeft(l) = {}]_vars

----------------------------------------------------------------------------
(* Restarting the scheduler *)

\* start_scheduler called after a stop_scheduler, lines 256-257: it returns
\* when the scheduler thread is still alive, and goes on to create a new
\* thread otherwise
StartAgain(c) ==
    /\ stopCalled
    /\ ~restartCalled
    /\ ctl[c].pc = "idle"
    /\ restartCalled' = TRUE
    /\ ctl' = IF schedThread # 0 /\ IsAlive(schedThread)
              THEN ctl
              ELSE [ctl EXCEPT ![c].pc = "checked"]
    /\ UNCHANGED <<file, now, running, schedThread, loop, syncedOnce>>
    /\ UNCHANGED <<stopCalled, storeThreadVars, cleanVars, migVars, resolveVars, protectVars,
                   evalVars, regVars, batchVars, histVars, normVars, scanVars, httpVars>>

\* the one stop_scheduler call that precedes the restart
StopBeforeRestart(c) ==
    /\ ~restartCalled
    /\ StopAfterStart(c)

\* the rest of a start_scheduler call
StartFinish(c) == StartCreate(c) \/ StartThread(c)

\* a polling pass of a loop thread while the scheduler is switched on
PassRunning == running /\ \E l \in Loops : loop[l].pc = "iter"

\* C30: after a stop_scheduler followed by a start_scheduler a loop thread
\* eventually performs a polling pass again.
C30_RestartRuns == restartCalled ~> PassRunning

----------------------------------------------------------------------------
(* playlist_monitor: registering a playlist *)

\* the keyword arguments playlist_monitor.add_monitored_playlist passes on
RegisterKeywords ==
    {"username", "url", "name", "platform", "poll_interval_hours", "auto_cleanup"}

\* the parameters of DataStore.add_monitored_playlist
AddMonitoredPlaylistParameters ==
    {"username", "url", "name", "platform", "poll_interval_hours"}

\* a call with keyword arguments binds when the function has a parameter for
\* each of them; otherwise Python raises TypeError before the body runs
Binds(keywords, parameters) == keywords \subseteq parameters

NoRegister == [pc |-> "done", username |-> UserA, url |-> "", poll_interval_hours |-> 1,
               auto_cleanup |-> FALSE, out |-> None]

RegisterIdle == reg = NoRegister

RegisterInit ==
    reg \in {[NoRegister EXCEPT !.pc = "start", !.username = u, !.url = url,
                                !.poll_interval_hours = h, !.auto_cleanup = ac] :
                u \in {UserA, UserB}, url \in {TargetA.url, "url2"}, h \in {1, 2},
                ac \in BOOLEAN}

\* playlist_monitor.add_monitored_playlist
Register ==
    /\ reg.pc = "start"
    /\ IF Binds(RegisterKeywords, AddMonitoredPlaylistParameters)
       THEN /\ lockOwner[reg.username] = 0
            /\ LET f == UserFile(reg.username)
                   r == AddMonitoredPlaylist(LoadUserData(file[f]), reg.username, reg.url,
                                             "Mix", reg.poll_interval_hours, "new")
               IN /\ file' = IF r.save THEN [file EXCEPT ![f] = Json(r.data)] ELSE file
                  /\ reg' = [reg EXCEPT !.pc = "returned", !.out = r.ret]
       ELSE /\ reg' = [reg EXCEPT !.pc = "raised"]
            /\ UNCHANGED file
    /\ UNCHANGED <<storeThreadVars, schedVars, cleanVars, migVars, resolveVars, protectVars,
                   evalVars, batchVars, histVars, restartVars, normVars, scanVars, httpVars>>

\* C24: a registration through playlist_monitor.add_monitored_playlist
\* returns, and the owner's file then holds a target for the url.
C24_RegistrationPersists ==
    reg.pc # "start" =>
        /\ reg.pc \in {"returned", "done"}
        /\ reg.pc = "returned" =>
              \E i \in DOMAIN LoadUserData(file[UserFile(reg.username)]).monitored_playlists :
                  LoadUserData(file[UserFile(reg.username)]).monitored_playlists[i].url
                     = reg.url

----------------------------------------------------------------------------
(* trackdrop, downloaders/playlist_downloader: a download batch *)

MaxBatch == 3

\* what happens to a track: it is found in the library (the search of
\* download_playlist finds it, download_track of process_recommendations
\* returns None and marks the song _duplicate), download_track returns a
\* path, returns None, or raises
TrackOutcomes == {"in_library", "downloaded", "not_found", "raises"}

BatchKinds == {"process_recommendations", "download_playlist"}

NoBatch == [kind |-> "process_recommendations", tracks |-> <<>>, pc |-> "done", i |-> 0,
            track_statuses |-> <<>>, downloaded |-> 0, skipped_count |-> 0,
            failed_count |-> 0]

BatchIdle == batch = NoBatch

\* track_statuses starts with every track pending
BatchInit ==
    batch \in {[NoBatch EXCEPT !.kind = k, !.tracks = ts, !.pc = "loop",
                               !.track_statuses = [j \in DOMAIN ts |-> "pending"]] :
                  k \in BatchKinds, ts \in SeqsUpTo(TrackOutcomes, MaxBatch)}

\* the loop body's bookkeeping for track i
Completed(b, i) ==
    [b EXCEPT !.downloaded = @ + 1, !.track_statuses[i] = "completed", !.i = i]

Skipped(b, i) ==
    [b EXCEPT !.skipped_count = @ + 1, !.track_statuses[i] = "skipped", !.i = i]

Failed(b, i) ==
    [b EXCEPT !.failed_count = @ + 1, !.track_statuses[i] = "failed", !.i = i]

OnDownloadErrorAbort(b, i) == [b EXCEPT !.pc = "aborted", !.i = i]

\* except Exception as e: around download_track, in both loops
OnDownloadError(b, i) == Failed(b, i)

\* trackdrop.py 307-340: one iteration of the loop of process_recommendations
RecommendationTrack(b, i) ==
    CASE b.tracks[i] = "raises" -> OnDownloadError(b, i)
      [] b.tracks[i] = "downloaded" -> Completed(b, i)
      [] b.tracks[i] = "in_library" -> Skipped(b, i)
      [] b.tracks[i] = "not_found" -> Failed(b, i)

\* playlist_downloader.py 540-608: one iteration of the loop of download_playlist
PlaylistTrack(b, i) ==
    IF b.tracks[i] = "in_library" THEN Skipped(b, i)
    ELSE CASE b.tracks[i] = "raises" -> OnDownloadError(b, i)
           [] b.tracks[i] = "downloaded" -> Completed(b, i)
           [] b.tracks[i] = "not_found" -> Failed(b, i)

\* no recommendations, no playlist tracks: both functions return at once
BatchEmpty ==
    /\ batch.pc = "loop"
    /\ batch.tracks = <<>>
    /\ batch' = [batch EXCEPT !.pc = "done"]
    /\ UNCHANGED <<storeVars, schedVars, cleanVars, migVars, resolveVars, protectVars,
                   evalVars, regVars, histVars, restartVars, normVars, scanVars, httpVars>>

\* for i, song in enumerate(unique_recommendations)
ProcessRecommendation ==
    /\ batch.pc = "loop"
    /\ batch.kind = "process_recommendations"
    /\ batch.i < Len(batch.tracks)
    /\ batch' = RecommendationTrack(batch, batch.i + 1)
    /\ UNCHANGED <<storeVars, schedVars, cleanVars, migVars, resolveVars, protectVars,
                   evalVars, regVars, histVars, restartVars, normVars, scanVars, httpVars>>

\* for i, track in enumerate(playlist_tracks)
DownloadPlaylistTrack ==
    /\ batch.pc = "loop"
    /\ batch.kind = "download_playlist"
    /\ batch.i < Len(batch.tracks)
    /\ batch' = PlaylistTrack(batch, batch.i + 1)
    /\ UNCHANGED <<storeVars, schedVars, cleanVars, migVars, resolveVars, protectVars,
                   evalVars, regVars, histVars, restartVars, normVars, scanVars, httpVars>>

\* the loop is over
BatchFinish ==
    /\ batch.pc = "loop"
    /\ batch.tracks # <<>>
    /\ batch.i = Len(batch.tracks)
    /\ batch' = [batch EXCEPT !.pc = "done"]
    /\ UNCHANGED <<storeVars, schedVars, cleanVars, migVars, resolveVars, protectVars,
                   evalVars, regVars, histVars, restartVars, normVars, scanVars, httpVars>>

TerminalStatuses == {"completed", "skipped", "failed"}

----------------------------------------------------------------------------
(* DataStore: migration of the legacy files *)

MaxInits == 3

\* /app/data/pending_cleanup.json as CleanupManager wrote it
LegacyPending == [s \in {"ListenBrainz"} |-> <<Track1, Track2>>]
LegacyCleanupFile == [pending |-> LegacyPending]

\* _migrate_pending_cleanup: the legacy pending set replaces that of
\* '__global__'
MigratePendingCleanup(store, legacy_data) ==
    LET pending == Get(legacy_data, "pending", legacy_data)
        data == LoadUserData(store[UserFile(GlobalUser)])
    IN [store EXCEPT ![UserFile(GlobalUser)] = Json(SetKey(data, "pending_cleanup", pending))]

\* _migrate_monitored_playlists: each owner's group replaces the owner's list
MigrateMonitoredPlaylistsInto(store, legacy_playlists) ==
    [f \in DOMAIN store |->
        IF MigrateMonitoredPlaylists(legacy_playlists, f) = <<>> THEN store[f]
        ELSE Json(SetKey(LoadUserData(store[f]), "monitored_playlists",
                         MigrateMonitoredPlaylists(legacy_playlists, f)))]

\* _migrate_legacy_data on a directory without users.json and without
\* download_history_<user>.json files (their two steps return at once)
MigrateLegacyDataAlways(store, marker_exists) ==
    MigrateMonitoredPlaylistsInto(MigratePendingCleanup(store, LegacyCleanupFile),
                                  LegacyPlaylists)

MigrateLegacyData(store, marker_exists) ==
    IF marker_exists THEN store
    ELSE MigrateMonitoredPlaylistsInto(MigratePendingCleanup(store, LegacyCleanupFile),
                                       LegacyPlaylists)

\* DataStore(data_dir): __init__ runs _migrate_legacy_data, which ends by
\* writing the marker
DataStoreInit ==
    /\ inits < MaxInits
    /\ file' = MigrateLegacyData(file, marker)
    /\ serial' = IF marker THEN serial ELSE file'
    /\ preCrash' = IF marker THEN preCrash ELSE file'
    /\ postCrash' = IF marker THEN postCrash ELSE file'
    /\ marker' = TRUE
    /\ inits' = inits + 1
    /\ UNCHANGED <<lockOwner, pc, call, snap, crashed>>
    /\ UNCHANGED <<schedVars, cleanVars, resolveVars, protectVars, evalVars, regVars, batchVars, histVars, restartVars, normVars, scanVars, httpVars>>

\* a data directory holding the legacy files, before the first DataStore
UnmigratedInit ==
    /\ marker = FALSE
    /\ inits = 0

\* a data directory on which a DataStore has been constructed
MigratedInit ==
    /\ marker = TRUE
    /\ inits = 1

\* operations on the migrated records, between the initializations
MigrateCalls ==
    {[op |-> "remove_pending_cleanup", user |-> GlobalUser, source |-> "ListenBrainz",
      artist |-> Artist1Upper, title |-> TitleX],
     [op |-> "add_pending_cleanup", user |-> GlobalUser, source |-> "ListenBrainz",
      track_info |-> Track1Again],
     [op |-> "clear_pending_cleanup", user |-> GlobalUser],
     [op |-> "mark_playlist_synced", user |-> UserA, playlist_id |-> "pl1",
      track_count |-> <<3>>, at |-> 1],
     [op |-> "update_user_settings", user |-> UserA,
      settings_dict |-> [first_time_setup_done |-> TRUE]]}

\* a DataStore exists before its operations are called
StoreUse ==
    /\ inits > 0
    /\ StoreStep({1}, MigrateCalls)

----------------------------------------------------------------------------
(* DataStore: unreadable and incomplete user files *)

\* A user file left by an interrupted write, and decodable files that lack
\* one section each.
WithoutKey(d, k) == [x \in DOMAIN d \ {k} |-> d[x]]

StoredData ==
    [DefaultUserData EXCEPT !.pending_cleanup = [s \in {"ListenBrainz"} |-> <<Track1>>],
                            !.download_history = [s \in {"ListenBrainz"} |-> <<Track2>>]]

InvalidFiles ==
    {Partial} \cup {Json(WithoutKey(StoredData, k)) : k \in DOMAIN StoredData}

InvalidInit ==
    /\ file \in {[f \in StoreFiles |-> IF f = UserFile(UserA) THEN x ELSE NoFile] :
                    x \in InvalidFiles}
    /\ serial = file
    /\ preCrash = file
    /\ postCrash = file
    /\ StoreThreadsInit

InvalidCalls ==
    {[op |-> "update_user_settings", user |-> UserA,
      settings_dict |-> [first_time_setup_done |-> TRUE]],
     [op |-> "get_user_settings", user |-> UserA],
     [op |-> "clear_download_history", user |-> UserA, sources |-> {"ListenBrainz"}],
     [op |-> "clear_download_history", user |-> UserA, sources |-> {}],
     [op |-> "add_pending_cleanup", user |-> UserA, source |-> "ListenBrainz",
      track_info |-> Track1Again],
     [op |-> "clear_pending_cleanup", user |-> UserA],
     [op |-> "get_pending_count", user |-> UserA],
     [op |-> "mark_playlist_synced", user |-> UserA, playlist_id |-> "pl1",
      track_count |-> NoCount, at |-> 1]}

\* C12: on a user file that is undecodable or lacks a section, every
\* operation works on the default structure in place of what is missing and
\* returns normally: no exception reaches the caller.
C12_InvalidFileIsDefault ==
    \A t \in Threads :
        /\ pc[t] # "raised"
        /\ (pc[t] = "loaded" /\ file[UserFile(call[t].user)].kind = "partial")
              => snap[t] = DefaultUserData

----------------------------------------------------------------------------
(* Claims about the migration *)

\* C11: constructing a DataStore on a directory that holds the migration
\* marker migrates nothing: every user file is left as it is, so no migrated
\* record is duplicated and no record removed since then comes back.
C11_MigratesOnce ==
    [][(marker /\ inits' # inits) => file' = file]_vars

\* a second DataStore was constructed after migrated records had been removed
C11_Witness ==
    /\ inits >= 2
    /\ file[UserFile(GlobalUser)].kind = "json"
    /\ ~IsPendingCleanup(file[UserFile(GlobalUser)].data, Artist1, TitleX)
    /\ IsPendingCleanup(MigrateLegacyDataAlways(file, TRUE)[UserFile(GlobalUser)].data,
                        Artist1, TitleX)

----------------------------------------------------------------------------
(* Specifications *)

Init == StoreInit /\ SchedVarsInit /\ CleanVarsInit /\ MigratedInit /\ ResolveIdle /\ ProtectIdle /\ EvalIdle /\ RegisterIdle /\ BatchIdle /\ HistIdle /\ restartCalled = FALSE /\ HttpIdle /\ ScanIdle /\ NormIdle

\* threads of one process calling DataStore operations
NextStore == StoreStep(Threads, ConcurrentCalls)

SpecStore == Init /\ [][NextStore]_vars

\* the same, with the process killed and restarted at any moment
NextCrash == StoreStep(Threads, ConcurrentCalls) \/ Crash \/ Restart

SpecCrash == Init /\ [][NextCrash]_vars

\* threads calling operations under user names that share a file
NextShared == StoreStep(Threads, SharedFileCalls)

SpecShared == Init /\ [][NextShared]_vars

\* a sync of target pl1 ending while its owner unregisters it
InitUnregister ==
    UnregisterInit /\ SchedVarsInit /\ CleanVarsInit /\ MigratedInit /\ ResolveIdle /\ ProtectIdle /\ EvalIdle /\ RegisterIdle /\ BatchIdle /\ HistIdle /\ restartCalled = FALSE /\ HttpIdle /\ ScanIdle /\ NormIdle

NextUnregister == StoreStep(Threads, UnregisterCalls)

SpecUnregister == InitUnregister /\ [][NextUnregister]_vars

\* the pending-cleanup operations, one after another
NextPending == StoreStep({1}, PendingCalls)

SpecPending == Init /\ [][NextPending]_vars

\* the playlist scheduler, started and stopped by concurrent callers
InitSched == SchedInit /\ CleanVarsInit /\ MigratedInit /\ ResolveIdle /\ ProtectIdle /\ EvalIdle /\ RegisterIdle /\ BatchIdle /\ HistIdle /\ restartCalled = FALSE /\ HttpIdle /\ ScanIdle /\ NormIdle

SpecSched == InitSched /\ [][SchedStep]_vars

\* one cleanup pass over a download history, on a library in any state
InitCleanup == StoreInit /\ SchedVarsInit /\ CleanupInit /\ MigratedInit /\ ResolveIdle /\ ProtectIdle /\ EvalIdle /\ RegisterIdle /\ BatchIdle /\ HistIdle /\ restartCalled = FALSE /\ HttpIdle /\ ScanIdle /\ NormIdle

SpecCleanup == InitCleanup /\ [][CleanupStep]_vars

\* a download recording a track while a cleanup pass removes one, on the
\* same history file
InitHist ==
    /\ StoreInit /\ SchedVarsInit /\ MigratedInit /\ ResolveIdle /\ restartCalled = FALSE /\ HttpIdle /\ ScanIdle /\ NormIdle
    /\ ProtectIdle /\ EvalIdle /\ RegisterIdle /\ BatchIdle /\ HistInit

NextHist ==
    HistAddLoad \/ HistAddSave \/ HistRemoveLoad \/ HistRemoveReturn \/ HistRemoveSave

SpecHist == InitHist /\ [][NextHist]_vars

\* one call of _should_delete_song, on any protection dict
InitDecide ==
    /\ StoreInit /\ SchedVarsInit /\ DecideInit /\ MigratedInit /\ ResolveIdle /\ ProtectIdle /\ EvalIdle /\ RegisterIdle /\ BatchIdle /\ HistIdle /\ restartCalled = FALSE /\ HttpIdle /\ ScanIdle /\ NormIdle
    /\ history = EmptyDict
    /\ library = [n \in Songs |-> Absent]
    /\ clean = IdleClean
    /\ deleted = {}

SpecDecide == InitDecide /\ [][Decide]_vars

\* DataStores constructed again and again on a directory with legacy files,
\* with operations in between
InitMigrate ==
    StoreInit /\ SchedVarsInit /\ CleanVarsInit /\ UnmigratedInit /\ ResolveIdle /\ ProtectIdle /\ EvalIdle /\ RegisterIdle /\ BatchIdle /\ HistIdle /\ restartCalled = FALSE /\ HttpIdle /\ ScanIdle /\ NormIdle

NextMigrate == DataStoreInit \/ StoreUse

SpecMigrate == InitMigrate /\ [][NextMigrate]_vars

\* a scheduler started and then stopped by one caller; the loop thread is
\* scheduled again and again, its waits end and its syncs return or raise
NextStop ==
    \/ StartBeforeStop(1) \/ StartCreate(1) \/ StartThread(1) \/ StopAfterStart(1)
    \/ LoopBegin(1) \/ LoopList(1) \/ LoopExit(1) \/ LoopSkip(1) \/ SyncBegin(1)
    \/ SyncExtract(1) \/ SyncDownload(1) \/ SyncMark(1) \/ LoopSleep(1) \/ LoopWake(1)
    \/ Tick

SpecStop == InitSched /\ [][NextStop]_vars /\ WF_vars(LoopStep(1))

\* a started scheduler whose loop thread may fail to record a sync
NextPass ==
    \/ StartBeforeStop(1) \/ StartCreate(1) \/ StartThread(1)
    \/ LoopBegin(1) \/ LoopList(1) \/ LoopSkip(1) \/ SyncBegin(1)
    \/ SyncExtract(1) \/ SyncDownload(1) \/ SyncMark(1) \/ SyncMarkRaises(1)
    \/ LoopSleep(1) \/ LoopWake(1)
    \/ Tick

SpecPass == InitSched /\ [][NextPass]_vars

\* a scheduler started, stopped once and started again by one caller; the caller
\* finishes its calls and the loop threads are scheduled again and again
NextRestart ==
    \/ StartBeforeStop(1) \/ StartCreate(1) \/ StartThread(1) \/ StopBeforeRestart(1)
    \/ StartAgain(1)
    \/ \E l \in Loops : LoopBegin(l) \/ LoopList(l) \/ LoopExit(l) \/ LoopSkip(l)
                        \/ SyncBegin(l) \/ SyncExtract(l) \/ SyncDownload(l)
                        \/ SyncMark(l) \/ LoopSleep(l) \/ LoopWake(l)
    \/ Tick

SpecRestart ==
    /\ InitSched /\ [][NextRestart]_vars
    /\ WF_vars(StartFinish(1))
    /\ \A l \in Loops : WF_vars(LoopStep(l))

\* one scheduler loop over a store holding a target in any state
InitDue == DueInit /\ CleanVarsInit /\ MigratedInit /\ ResolveIdle /\ ProtectIdle /\ EvalIdle /\ RegisterIdle /\ BatchIdle /\ HistIdle /\ restartCalled = FALSE /\ HttpIdle /\ ScanIdle /\ NormIdle

NextDue ==
    \/ StartCheck(1) \/ StartCreate(1) \/ StartThread(1)
    \/ LoopBegin(1) \/ LoopList(1) \/ LoopSkip(1) \/ SyncBegin(1) \/ SyncExtract(1)
    \/ SyncDownload(1) \/ SyncMark(1) \/ LoopSleep(1) \/ LoopWake(1)
    \/ Tick

SpecDue == InitDue /\ [][NextDue]_vars

\* a registration while the scheduler loop runs over the store
InitRegister ==
    DueInit /\ CleanVarsInit /\ MigratedInit /\ ResolveIdle /\ ProtectIdle /\ EvalIdle /\ RegisterInit /\ BatchIdle /\ HistIdle /\ restartCalled = FALSE /\ HttpIdle /\ ScanIdle /\ NormIdle

NextRegister ==
    \/ Register
    \/ StartCheck(1) \/ StartCreate(1) \/ StartThread(1)
    \/ LoopBegin(1) \/ LoopList(1) \/ LoopSkip(1) \/ SyncBegin(1) \/ SyncExtract(1)
    \/ SyncDownload(1) \/ SyncMark(1) \/ LoopSleep(1) \/ LoopWake(1)
    \/ Tick

SpecRegister == InitRegister /\ [][NextRegister]_vars

\* one download batch, with tracks that are found, downloaded, not found or
\* whose download raises
InitBatch ==
    /\ StoreInit /\ SchedVarsInit /\ CleanVarsInit /\ MigratedInit /\ ResolveIdle /\ HistIdle /\ restartCalled = FALSE /\ HttpIdle /\ ScanIdle /\ NormIdle
    /\ ProtectIdle /\ EvalIdle /\ RegisterIdle /\ BatchInit

NextBatch == BatchEmpty \/ ProcessRecommendation \/ DownloadPlaylistTrack \/ BatchFinish

SpecBatch == InitBatch /\ [][NextBatch]_vars

\* one call of _search_song_in_navidrome, on any answers of the server
InitResolve ==
    StoreInit /\ SchedVarsInit /\ CleanVarsInit /\ MigratedInit /\ ResolveInit /\ ProtectIdle /\ EvalIdle /\ RegisterIdle /\ BatchIdle /\ HistIdle /\ restartCalled = FALSE /\ HttpIdle /\ ScanIdle /\ NormIdle

\* one call of _check_song_protection, on a song in any state, with and
\* without the database
InitProtect ==
    StoreInit /\ SchedVarsInit /\ CleanVarsInit /\ MigratedInit /\ ResolveIdle /\ ProtectInit /\ EvalIdle /\ RegisterIdle /\ BatchIdle /\ HistIdle /\ restartCalled = FALSE /\ HttpIdle /\ ScanIdle /\ NormIdle

SpecProtect == InitProtect /\ [][Protect]_vars

\* the verdict of the database path, for any annotation rows
InitBulk ==
    StoreInit /\ SchedVarsInit /\ CleanVarsInit /\ MigratedInit /\ ResolveIdle /\ BulkInit /\ EvalIdle /\ RegisterIdle /\ BatchIdle /\ HistIdle /\ restartCalled = FALSE /\ HttpIdle /\ ScanIdle /\ NormIdle

SpecBulk == InitBulk /\ [][Protect]_vars

\* one call of _check_song_protection step by step, with the database in
\* any condition
InitEval ==
    StoreInit /\ SchedVarsInit /\ CleanVarsInit /\ MigratedInit /\ ResolveIdle /\ ProtectIdle /\ EvalInit /\ RegisterIdle /\ BatchIdle /\ HistIdle /\ restartCalled = FALSE /\ HttpIdle /\ ScanIdle /\ NormIdle

NextEval == EvalDatabase \/ EvalDatabaseFails \/ EvalNoDatabase \/ EvalFallback

SpecEval == InitEval /\ [][NextEval]_vars

NextResolve == SearchReturns \/ SearchFails \/ ResolveReturn

SpecResolve == InitResolve /\ [][NextResolve]_vars

\* _normalize_for_match on any short text, and again on its output
InitNorm ==
    StoreInit /\ SchedVarsInit /\ CleanVarsInit /\ MigratedInit /\ ResolveIdle /\ ProtectIdle /\ EvalIdle /\ RegisterIdle /\ BatchIdle /\ HistIdle /\ restartCalled = FALSE /\ HttpIdle /\ ScanIdle /\ NormInit

NextNorm == Normalize \/ NormalizeAgain

SpecNorm == InitNorm /\ [][NextNorm]_vars

\* a wait for a library scan, sync or async, which is scheduled until it
\* returns, and its caller after it
InitScan ==
    StoreInit /\ SchedVarsInit /\ CleanVarsInit /\ MigratedInit /\ ResolveIdle /\ ProtectIdle /\ EvalIdle /\ RegisterIdle /\ BatchIdle /\ HistIdle /\ restartCalled = FALSE /\ HttpIdle /\ ScanInit /\ NormIdle

NextScan == ScanCheck \/ ScanSleep \/ ScanTimeout \/ ScanProceed

SpecScan == InitScan /\ [][NextScan]_vars /\ WF_vars(ScanStep)

\* one call of make_request_with_retries or of its async twin
InitHttp ==
    StoreInit /\ SchedVarsInit /\ CleanVarsInit /\ MigratedInit /\ ResolveIdle /\ ProtectIdle /\ EvalIdle /\ RegisterIdle /\ BatchIdle /\ HistIdle /\ restartCalled = FALSE /\ HttpInit /\ NormIdle /\ ScanIdle

NextHttp == AttemptReturns \/ AttemptRetried \/ AttemptRaises \/ LoopEndsReturnNone

SpecHttp == InitHttp /\ [][NextHttp]_vars

\* operations on a user file that is undecodable or incomplete
InitInvalid == InvalidInit /\ SchedVarsInit /\ CleanVarsInit /\ MigratedInit /\ ResolveIdle /\ ProtectIdle /\ EvalIdle /\ RegisterIdle /\ BatchIdle /\ HistIdle /\ restartCalled = FALSE /\ HttpIdle /\ ScanIdle /\ NormIdle

NextInvalid == StoreStep({1}, InvalidCalls) \/ Propagate(1)

SpecInvalid == InitInvalid /\ [][NextInvalid]_vars

====
